---- MODULE Spec2Model ----
(***************************************************************************)
(* Verification model of the fantastic-spork end-to-end test suite:        *)
(* the ConfigManager (utils/config-manager.ts), the module-level singleton *)
(* that the test fixtures hand to every scenario (utils/base-test.ts) and  *)
(* the BasePage page abstraction (pages/base-page.ts).                      *)
(*                                                                         *)
(* Strings that the code inspects character by character (baseUrl,         *)
(* basePath) are sequences of one-character strings.  Strings that the     *)
(* code only compares or uses as object keys (environment names, variable  *)
(* values) are TLA+ strings.  A command-line argument is the sequence of   *)
(* its '='-separated parts: <<"--env", "staging">> is "--env=staging".     *)
(***************************************************************************)
EXTENDS Integers, Sequences, FiniteSets, TLC

\* ------------------------------------------------------------------ bounds
MaxEnvs == 2
MaxUrlLen == 5
MaxPathLen == 2
MaxSteps == 1
MaxCalls == 2

\* --------------------------------------------------------------- JS values
\* process.env.X of a variable that is not set, a missing object property
Undefined == "undefined"

JsUndefined == [t |-> "undefined"]

JsStr(s) == [t |-> "string", s |-> s]

JsNum(n) == [t |-> "number", n |-> n]

JsFunction == [t |-> "function"]

\* !v of JavaScript, for the values the configuration document can hold
Truthy(v) ==
  CASE v.t = "undefined" -> FALSE
    [] v.t = "string" -> v.s # <<>>
    [] v.t = "number" -> v.n # 0
    [] OTHER -> TRUE

\* truthiness of a plain string value (environment variable, display name)
TruthyName(v) == v # Undefined /\ v # ""

\* members every object parsed by JSON.parse inherits from Object.prototype
ObjectPrototypeKeys ==
  {"constructor", "__proto__", "toString", "valueOf", "hasOwnProperty"}

\* ------------------------------------------------------------- URL strings
Chars == {"x", ":", "/"}

RECURSIVE SeqsUpTo(_, _)
SeqsUpTo(S, n) ==
  IF n = 0 THEN {<<>>}
  ELSE LET shorter == SeqsUpTo(S, n - 1)
       IN shorter \cup {Append(s, c) : s \in {t \in shorter : Len(t) = n - 1}, c \in S}

\* index of the first element of s at or after i that is not c, Len(s)+1 if none
RECURSIVE SkipWhile(_, _, _)
SkipWhile(s, i, c) ==
  IF i > Len(s) THEN i
  ELSE IF s[i] = c THEN SkipWhile(s, i + 1, c) ELSE i

\* index of the first c in s at or after i, Len(s)+1 if none
RECURSIVE IndexOf(_, _, _)
IndexOf(s, i, c) ==
  IF i > Len(s) THEN i
  ELSE IF s[i] = c THEN i ELSE IndexOf(s, i + 1, c)

\* new URL(s) without a base, for strings over Chars: the scheme is a run of
\* letters closed by ':'; what follows is an opaque path, a path, or after
\* "//" an authority whose host must not be empty before a ':' and whose
\* port (the text after that ':') must be digits, here: empty.
isValidUrl(s) ==
  /\ Len(s) >= 2
  /\ s[1] = "x"
  /\ LET colon == SkipWhile(s, 1, "x")
     IN /\ colon <= Len(s)
        /\ s[colon] = ":"
        /\ LET rest == SubSeq(s, colon + 1, Len(s))
           IN IF Len(rest) >= 2 /\ rest[1] = "/" /\ rest[2] = "/"
              THEN LET afterSlashes == SubSeq(rest, 3, Len(rest))
                       hostEnd == IndexOf(afterSlashes, 1, "/")
                       authority == SubSeq(afterSlashes, 1, hostEnd - 1)
                       portColon == IndexOf(authority, 1, ":")
                   IN \/ portColon > Len(authority)
                      \/ /\ portColon > 1
                         /\ portColon = Len(authority)
              ELSE TRUE

\* baseUrl.replace(/\/$/, '')
StripTrailingSlash(s) ==
  IF Len(s) > 0 /\ s[Len(s)] = "/" THEN SubSeq(s, 1, Len(s) - 1) ELSE s

\* faulty variant: the path is appended as it is
EnsureLeadingSlash_AsGiven(p) == p

\* basePath.startsWith('/') ? basePath : `/${basePath}`
EnsureLeadingSlash(p) ==
  IF Len(p) > 0 /\ p[1] = "/" THEN p ELSE <<"/">> \o p

\* ------------------------------------------------- configuration documents
EnvNames == {"production", "staging", "local"}

\* an entry of "environments": baseUrl, basePath, timeout and retries are JS
\* values, name is the display name (Undefined when the entry has none)
GoodEntry ==
  [baseUrl |-> JsStr(<<"x", ":", "/", "/", "x">>), basePath |-> JsStr(<<"/">>),
   name |-> "Environment", timeout |-> JsUndefined, retries |-> JsUndefined]

\* entries that pass validateConfigStructure
ValidEntries ==
  {GoodEntry,
   [GoodEntry EXCEPT !.name = Undefined],
   [GoodEntry EXCEPT !.timeout = JsNum(60000), !.retries = JsNum(1)]}

\* entries with one defect each: baseUrl missing, empty, not a string, not a
\* URL; basePath missing, empty
DefectiveEntries ==
  {[GoodEntry EXCEPT !.baseUrl = JsUndefined],
   [GoodEntry EXCEPT !.baseUrl = JsStr(<<>>)],
   [GoodEntry EXCEPT !.baseUrl = JsNum(1)],
   [GoodEntry EXCEPT !.baseUrl = JsStr(<<"x", "/">>)],
   [GoodEntry EXCEPT !.basePath = JsUndefined],
   [GoodEntry EXCEPT !.basePath = JsStr(<<>>)]}

\* a JS object: its own keys in insertion order and the value of each
JsObject(keys, get) == [t |-> "object", keys |-> keys, get |-> get]

Range(s) == {s[i] : i \in DOMAIN s}

\* sequences without repetition over S, of length at most n
DistinctSeqs(S, n) == {s \in SeqsUpTo(S, n) : Cardinality(Range(s)) = Len(s)}

DemoCredentials ==
  JsObject(<<"demo">>, [k \in {"demo"} |-> [username |-> "demouser", password |-> "fashion123"]])

MissingFile == [kind |-> "missing"]

MalformedFile == [kind |-> "malformed"]

JsonFile(environments, credentials) ==
  [kind |-> "json", environments |-> environments, credentials |-> credentials]

\* documents whose "environments" is an object of at most n entries drawn from E
DocsOver(E, n) ==
  UNION {{JsonFile(JsObject(ks, get), DemoCredentials) : get \in [Range(ks) -> E]} :
           ks \in DistinctSeqs(EnvNames, n)}

\* obj[key] of JavaScript: an own property, else a member inherited from
\* Object.prototype, else undefined
Lookup(obj, key) ==
  IF key \in Range(obj.keys) THEN obj.get[key]
  ELSE IF key \in ObjectPrototypeKeys THEN JsFunction
  ELSE JsUndefined

\* v.f of JavaScript on any value of the model
Field(v, f) == IF f \in DOMAIN v THEN v[f] ELSE JsUndefined

\* !!v for the result of a Lookup: entries and inherited members are objects
Defined(v) == v # JsUndefined

\* ------------------------------------------------------ load and validation
\* faulty variant: the basePath of an entry is not checked
EntryReport_NoBasePathCheck(name, env) ==
  LET baseUrl == Field(env, "baseUrl")
  IN [errors |->
        (IF ~Truthy(baseUrl) \/ baseUrl.t # "string"
           THEN <<[what |-> "missing or invalid baseUrl", env |-> name]>> ELSE <<>>)
        \o (IF Truthy(baseUrl) /\ ~(baseUrl.t = "string" /\ isValidUrl(baseUrl.s))
           THEN <<[what |-> "invalid baseUrl format", env |-> name]>> ELSE <<>>),
      warnings |->
        IF ~TruthyName(env.name)
          THEN <<[what |-> "missing display name", env |-> name]>> ELSE <<>>]

\* the body of the forEach of validateConfigStructure for one entry
EntryReport(name, env) ==
  LET baseUrl == Field(env, "baseUrl")
      basePath == Field(env, "basePath")
  IN [errors |->
        (IF ~Truthy(baseUrl) \/ baseUrl.t # "string"
           THEN <<[what |-> "missing or invalid baseUrl", env |-> name]>> ELSE <<>>)
        \o (IF ~Truthy(basePath) \/ basePath.t # "string"
           THEN <<[what |-> "missing or invalid basePath", env |-> name]>> ELSE <<>>)
        \o (IF Truthy(baseUrl) /\ ~(baseUrl.t = "string" /\ isValidUrl(baseUrl.s))
           THEN <<[what |-> "invalid baseUrl format", env |-> name]>> ELSE <<>>),
      warnings |->
        IF ~TruthyName(env.name)
          THEN <<[what |-> "missing display name", env |-> name]>> ELSE <<>>]

RECURSIVE EntryReports(_, _)
EntryReports(environments, i) ==
  IF i > Len(environments.keys) THEN [errors |-> <<>>, warnings |-> <<>>]
  ELSE LET name == environments.keys[i]
           here == EntryReport(name, environments.get[name])
           rest == EntryReports(environments, i + 1)
       IN [errors |-> here.errors \o rest.errors,
           warnings |-> here.warnings \o rest.warnings]

validateConfigStructure(config) ==
  LET environments == config.environments
      structure ==
        IF ~Truthy(environments) \/ environments.t # "object"
          THEN <<[what |-> "Missing or invalid environments configuration", env |-> ""]>>
          ELSE <<>>
      entries ==
        IF environments.t = "object" THEN EntryReports(environments, 1)
        ELSE [errors |-> <<>>, warnings |-> <<>>]
      credentials ==
        IF ~Truthy(config.credentials)
          THEN <<[what |-> "No credentials configuration found", env |-> ""]>> ELSE <<>>
      errors == structure \o entries.errors
  IN [isValid |-> errors = <<>>, errors |-> errors,
      warnings |-> entries.warnings \o credentials]

\* -------------------------------------------------------------- resolution
\* process.argv.find(arg => arg.startsWith('--env='))?.split('=')[1]
RECURSIVE parseCommandLineArgument(_)
parseCommandLineArgument(args) ==
  IF args = <<>> THEN Undefined
  ELSE IF Len(Head(args)) >= 2 /\ Head(args)[1] = "--env" THEN Head(args)[2]
  ELSE parseCommandLineArgument(Tail(args))

\* faulty variant: the --env= argument is consulted before TEST_ENV
strategies_ArgumentFirst(penv, args) ==
  << [name |-> "Command Line Argument", value |-> parseCommandLineArgument(args)],
     [name |-> "Command Line (TEST_ENV)", value |-> penv.TEST_ENV],
     [name |-> "Environment Variable (PLAYWRIGHT_ENV)", value |-> penv.PLAYWRIGHT_ENV],
     [name |-> "Node Environment (NODE_ENV)", value |-> penv.NODE_ENV],
     [name |-> "Default", value |-> "production"] >>

strategies(penv, args) ==
  << [name |-> "Command Line (TEST_ENV)", value |-> penv.TEST_ENV],
     [name |-> "Command Line Argument", value |-> parseCommandLineArgument(args)],
     [name |-> "Environment Variable (PLAYWRIGHT_ENV)", value |-> penv.PLAYWRIGHT_ENV],
     [name |-> "Node Environment (NODE_ENV)", value |-> penv.NODE_ENV],
     [name |-> "Default", value |-> "production"] >>

\* the test of the for loop over the strategies
StrategyMatches(config, strategy) ==
  TruthyName(strategy.value) /\ Defined(Lookup(config.environments, strategy.value))

\* faulty variant: the loop does not return at the first match, the last match wins
determineEnvironmentWithFallback_LastMatch(config, penv, args) ==
  LET all == strategies(penv, args)
      hits == {i \in DOMAIN all : StrategyMatches(config, all[i])}
      availableEnvironments == config.environments.keys
  IN IF hits # {}
       THEN LET last == CHOOSE i \in hits : \A j \in hits : i >= j
            IN [threw |-> FALSE, name |-> all[last].value,
                console |-> <<[level |-> "log", text |-> "Using environment from",
                               arg |-> all[last].name]>>]
     ELSE IF Len(availableEnvironments) > 0
       THEN [threw |-> FALSE, name |-> availableEnvironments[1],
             console |-> <<[level |-> "warn", text |-> "Using fallback environment",
                            arg |-> availableEnvironments[1]]>>]
     ELSE [threw |-> TRUE, name |-> Undefined, console |-> <<>>]

\* the returned name and what was logged, or the throw, of
\* determineEnvironmentWithFallback
determineEnvironmentWithFallback(config, penv, args) ==
  LET all == strategies(penv, args)
      hits == {i \in DOMAIN all : StrategyMatches(config, all[i])}
      availableEnvironments == config.environments.keys
  IN IF hits # {}
       THEN LET first == CHOOSE i \in hits : \A j \in hits : i <= j
            IN [threw |-> FALSE, name |-> all[first].value,
                console |-> <<[level |-> "log", text |-> "Using environment from",
                               arg |-> all[first].name]>>]
     ELSE IF Len(availableEnvironments) > 0
       THEN [threw |-> FALSE, name |-> availableEnvironments[1],
             console |-> <<[level |-> "warn", text |-> "Using fallback environment",
                            arg |-> availableEnvironments[1]]>>]
     ELSE [threw |-> TRUE, name |-> Undefined, console |-> <<>>]

\* ------------------------------------------------------------ ConfigManager
VARIABLES
  fsDefault,     \* config/environments.json
  fsSpecific,    \* config/environments.<NODE_ENV || 'default'>.json
  procEnv,       \* process.env: TEST_ENV, PLAYWRIGHT_ENV, NODE_ENV, CI
  argv,          \* process.argv
  moduleState,   \* import of utils/config-manager: "unloaded", "loaded", "failed"
  instance,      \* ConfigManager.instance
  nextId,        \* identity given to the next ConfigManager object
  thrown,        \* message of the error the import threw, "" if none
  console,       \* what console.log / console.warn printed, in order
  ret,           \* the last call of the public API and what it returned
  steps          \* scenario steps executed by the run

configVars ==
  <<fsDefault, fsSpecific, procEnv, argv, moduleState, instance, nextId, thrown,
    console, ret, steps>>

\* the browser page behind a BasePage, and the BasePage method in progress
VARIABLES
  dom,           \* for each selector, whether it matches a visible element now
  call,          \* the BasePage method a scenario is awaiting, its position
  calls,         \* BasePage methods called so far
  trace,         \* the calls made on the framework's page handle, in order
  outcome        \* how the last BasePage method ended

\* the page a page view or a scenario drives, and the method in progress
VARIABLES
  site,          \* the page under test: visible elements, text, address
  frame,         \* the method a scenario is awaiting: its locals and position
  log,           \* the framework calls that method made, with their outcomes
  ended          \* how the last method ended, and how many have ended

viewVars == <<site, frame, log, ended>>

basePageVars == <<dom, call, calls, trace, outcome>>

\* the test harness around the scenarios: the wall clock in milliseconds,
\* the parallel runs of the export scenario and the files they wrote; the
\* events the page emitted and the list the error listeners fill
VARIABLES clock, runs, files, emitted, errors

harnessVars == <<clock, runs, files, emitted, errors>>

pageVars == <<basePageVars, viewVars, harnessVars>>

NoInstance == [id |-> 0]

NoCall == [op |-> "none", threw |-> FALSE]

NoFrame == [fn |-> "none"]

NoResult == [n |-> 0, fn |-> "none", variant |-> "none", threw |-> FALSE, value |-> FALSE]

\* a page showing nothing, at about:blank
BlankSite == [visible |-> {}, text |-> JsUndefined, url |-> <<>>]

\* this.config.environments[this.currentEnvironment], throwing when it is falsy
getCurrentEnvironment(this) ==
  LET env == Lookup(this.config.environments, this.currentEnvironment)
  IN IF ~Defined(env) THEN [threw |-> TRUE] ELSE [threw |-> FALSE, value |-> env]

getFullBaseUrl(this) ==
  LET got == getCurrentEnvironment(this)
  IN IF got.threw THEN [threw |-> TRUE]
     ELSE LET env == got.value
              fullUrl == StripTrailingSlash(env.baseUrl.s) \o EnsureLeadingSlash(env.basePath.s)
          IN IF isValidUrl(fullUrl) THEN [threw |-> FALSE, value |-> fullUrl]
             ELSE [threw |-> TRUE]

\* what a method of the constructor hands on: the error it threw if any, what
\* it printed, and the object under construction
Throw(message, printed) ==
  [threw |-> TRUE, error |-> message, console |-> printed, instance |-> NoInstance]

\* parseAndValidateConfig after JSON.parse succeeded; validation is the
\* result of validateConfigStructure(file)
parseAndValidateConfig(file, validation) ==
  IF ~validation.isValid
    THEN Throw("Failed to load configuration: Configuration validation failed", <<>>)
  ELSE [threw |-> FALSE, error |-> "", instance |-> [config |-> file],
        console |-> IF Len(validation.warnings) > 0
                      THEN <<[level |-> "warn", text |-> "Configuration warnings:",
                              arg |-> validation.warnings]>>
                      ELSE <<>>]

\* the file resolveConfigPath names: the environment-specific one if it exists
resolveConfigPath(defaultFile, specificFile) ==
  IF specificFile.kind # "missing" THEN specificFile ELSE defaultFile

\* faulty variant: a file that is missing or is not JSON is replaced by a built-in
\* default document instead of failing the load
loadAndValidateConfig_DefaultsOnError(defaultFile, specificFile) ==
  LET file == resolveConfigPath(defaultFile, specificFile)
      builtIn == JsonFile(JsObject(<<"production">>, [k \in {"production"} |-> GoodEntry]),
                          DemoCredentials)
  IN IF file.kind \in {"missing", "malformed"}
       THEN parseAndValidateConfig(builtIn, validateConfigStructure(builtIn))
     ELSE parseAndValidateConfig(file, validateConfigStructure(file))

\* ensureConfigFileExists, readFileSync, JSON.parse, parseAndValidateConfig
loadAndValidateConfig(defaultFile, specificFile) ==
  LET file == resolveConfigPath(defaultFile, specificFile)
  IN IF file.kind = "missing" THEN Throw("Configuration file not found", <<>>)
     ELSE IF file.kind = "malformed"
       THEN Throw("Failed to load configuration: Invalid JSON in configuration file", <<>>)
     ELSE parseAndValidateConfig(file, validateConfigStructure(file))

\* validateSelectedEnvironment on the object whose config was loaded and whose
\* currentEnvironment determineEnvironmentWithFallback chose
validateSelectedEnvironment(id, loaded, chosen) ==
  IF chosen.threw
    THEN Throw("No valid environments found in configuration", loaded.console)
  ELSE LET this == [id |-> id, config |-> loaded.instance.config,
                    currentEnvironment |-> chosen.name]
           env == getCurrentEnvironment(this)
       IN IF env.threw
            THEN Throw("Environment not found in configuration",
                       loaded.console \o chosen.console)
          ELSE IF ~Truthy(Field(env.value, "baseUrl")) \/ ~Truthy(Field(env.value, "basePath"))
            THEN Throw("Selected environment is missing required configuration",
                       loaded.console \o chosen.console)
          ELSE [threw |-> FALSE, error |-> "", instance |-> this,
                console |-> loaded.console \o chosen.console \o
                  <<[level |-> "log", text |-> "Configuration loaded successfully",
                     arg |-> env.value.name]>>]

\* the constructor after loadAndValidateConfig returned or threw
Constructed(id, loaded, penv, args) ==
  IF loaded.threw THEN loaded
  ELSE validateSelectedEnvironment(id, loaded,
         determineEnvironmentWithFallback(loaded.instance.config, penv, args))

\* the outcome of `new ConfigManager()`: the new object (id is its identity),
\* what was printed, and the error thrown if any
Constructor(id, defaultFile, specificFile, penv, args) ==
  Constructed(id, loadAndValidateConfig(defaultFile, specificFile), penv, args)

\* faulty variant: every call constructs a new object
getInstance_AlwaysConstructs(current, id, defaultFile, specificFile, penv, args) ==
  Constructor(id, defaultFile, specificFile, penv, args)

\* ConfigManager.getInstance(): constructs on the first call only
getInstance(current, id, defaultFile, specificFile, penv, args) ==
  IF current # NoInstance
    THEN [threw |-> FALSE, error |-> "", instance |-> current, console |-> <<>>]
  ELSE Constructor(id, defaultFile, specificFile, penv, args)

\* --------------------------------------------------------- operations
\* line 312 of config-manager.ts, run when a test file imports base-test:
\* export const configManager = ConfigManager.getInstance()
ImportModule ==
  /\ moduleState = "unloaded"
  /\ \E got \in {getInstance(instance, nextId, fsDefault, fsSpecific, procEnv, argv)} :
       /\ moduleState' = IF got.threw THEN "failed" ELSE "loaded"
       /\ instance' = got.instance
       /\ nextId' = IF got.instance # instance THEN nextId + 1 ELSE nextId
       /\ thrown' = got.error
       /\ console' = console \o got.console
       /\ ret' = [op |-> "getInstance", threw |-> got.threw, value |-> got.instance.id]
  /\ UNCHANGED <<fsDefault, fsSpecific, procEnv, argv, steps>>
  /\ UNCHANGED pageVars

\* the code that can call the public API is the code that imported the module
\* and a call of the API changes nothing but what the caller holds
Called(result) ==
  /\ moduleState = "loaded"
  /\ ret' = result
  /\ UNCHANGED <<fsDefault, fsSpecific, procEnv, argv, moduleState, thrown, steps>>
  /\ UNCHANGED pageVars

\* a later ConfigManager.getInstance()
GetInstance ==
  \E got \in {getInstance(instance, nextId, fsDefault, fsSpecific, procEnv, argv)} :
     /\ Called([op |-> "getInstance", threw |-> got.threw, value |-> got.instance.id])
     /\ instance' = got.instance
     /\ nextId' = IF got.instance # instance THEN nextId + 1 ELSE nextId
     /\ console' = console \o got.console

GetCurrentEnvironment ==
  /\ Called([op |-> "getCurrentEnvironment"] @@ getCurrentEnvironment(instance))
  /\ UNCHANGED <<instance, nextId, console>>

GetFullBaseUrl ==
  /\ Called([op |-> "getFullBaseUrl"] @@ getFullBaseUrl(instance))
  /\ UNCHANGED <<instance, nextId, console>>

GetCurrentEnvironmentName ==
  /\ Called([op |-> "getCurrentEnvironmentName", threw |-> FALSE,
             value |-> instance.currentEnvironment])
  /\ UNCHANGED <<instance, nextId, console>>

\* { ...this.config }
GetConfig ==
  /\ Called([op |-> "getConfig", threw |-> FALSE, value |-> instance.config])
  /\ UNCHANGED <<instance, nextId, console>>

\* { ...this.config.environments }
GetAllEnvironments ==
  /\ Called([op |-> "getAllEnvironments", threw |-> FALSE,
             value |-> instance.config.environments])
  /\ UNCHANGED <<instance, nextId, console>>

GetCredentials(type) ==
  /\ LET credentials == instance.config.credentials
         found == IF Truthy(credentials) THEN Lookup(credentials, type) ELSE JsUndefined
     IN Called(IF ~Defined(found) THEN [op |-> "getCredentials", threw |-> TRUE]
               ELSE [op |-> "getCredentials", threw |-> FALSE, value |-> found])
  /\ UNCHANGED <<instance, nextId, console>>

\* env.timeout || 30000
GetTimeout ==
  /\ LET env == getCurrentEnvironment(instance)
     IN Called(IF env.threw THEN [op |-> "getTimeout", threw |-> TRUE]
               ELSE [op |-> "getTimeout", threw |-> FALSE,
                     value |-> IF Truthy(env.value.timeout) THEN env.value.timeout.n ELSE 30000])
  /\ UNCHANGED <<instance, nextId, console>>

\* env.retries ?? (process.env.CI ? 2 : 0)
GetRetries ==
  /\ LET env == getCurrentEnvironment(instance)
     IN Called(IF env.threw THEN [op |-> "getRetries", threw |-> TRUE]
               ELSE [op |-> "getRetries", threw |-> FALSE,
                     value |-> IF env.value.retries # JsUndefined THEN env.value.retries.n
                               ELSE IF TruthyName(procEnv.CI) THEN 2 ELSE 0])
  /\ UNCHANGED <<instance, nextId, console>>

\* faulty variant: test bodies run whether or not the configuration module loaded
ScenarioRuns_WithoutImport == moduleState # "unloaded"

\* one step of a scenario (navigation, element interaction, HTTP request): a
\* test body runs only in a test file whose imports were evaluated
ScenarioRuns == moduleState = "loaded"

ScenarioStep ==
  /\ ScenarioRuns
  /\ steps < MaxSteps
  /\ steps' = steps + 1
  /\ UNCHANGED <<fsDefault, fsSpecific, procEnv, argv, moduleState, instance, nextId,
                 thrown, console, ret>>
  /\ UNCHANGED pageVars

\* ---------------------------------------------------------------- BasePage
Selectors == {"#username", "input[type=submit]"}

Idle == [op |-> "idle"]

\* a scenario calls a BasePage method that starts with this.waitForElement
Begin(op, selector, value) ==
  /\ ScenarioRuns
  /\ call = Idle
  /\ calls < MaxCalls
  /\ calls' = calls + 1
  /\ call' = [op |-> op, selector |-> selector, value |-> value, n |-> calls + 1,
              pc |-> "waitForElement"]
  /\ UNCHANGED <<dom, trace, outcome>>
  /\ UNCHANGED <<viewVars, harnessVars>>
  /\ UNCHANGED configVars

\* faulty variant: click goes straight to this.page.click
Click_WithoutWait(selector) ==
  /\ ScenarioRuns
  /\ call = Idle
  /\ calls < MaxCalls
  /\ calls' = calls + 1
  /\ call' = [op |-> "click", selector |-> selector, value |-> "", n |-> calls + 1,
              pc |-> "interact"]
  /\ UNCHANGED <<dom, trace, outcome>>
  /\ UNCHANGED <<viewVars, harnessVars>>
  /\ UNCHANGED configVars

Click(selector) == Begin("click", selector, "")

Fill(selector, value) == Begin("fill", selector, value)

\* the method in progress ends: it returns, or throws what the page call threw
Ended(threw) ==
  /\ call' = Idle
  /\ outcome' = [n |-> call.n, op |-> call.op, selector |-> call.selector, threw |-> threw]

\* await this.page.waitForSelector(selector, { state: 'visible', timeout }):
\* resolves when the element is visible, rejects when the timeout passes first
WaitForElement ==
  /\ call # Idle
  /\ call.pc = "waitForElement"
  /\ trace' = Append(trace, [n |-> call.n, fn |-> "waitForSelector",
                             selector |-> call.selector, ok |-> dom[call.selector]])
  /\ IF dom[call.selector]
       THEN call' = [call EXCEPT !.pc = "interact"] /\ UNCHANGED outcome
       ELSE Ended(TRUE)
  /\ UNCHANGED <<dom, calls>>
  /\ UNCHANGED <<viewVars, harnessVars>>
  /\ UNCHANGED configVars

\* await this.page.click(selector) / await this.page.fill(selector, value):
\* the framework call fails when the element is no longer there to act on
Interact ==
  /\ call # Idle
  /\ call.pc = "interact"
  /\ trace' = Append(trace, [n |-> call.n, fn |-> call.op,
                             selector |-> call.selector, ok |-> dom[call.selector]])
  /\ Ended(~dom[call.selector])
  /\ UNCHANGED <<dom, calls>>
  /\ UNCHANGED <<viewVars, harnessVars>>
  /\ UNCHANGED configVars

\* the site under test shows or hides an element
DomChange(selector) ==
  /\ dom' = [dom EXCEPT ![selector] = ~@]
  /\ UNCHANGED <<call, calls, trace, outcome>>
  /\ UNCHANGED <<viewVars, harnessVars>>
  /\ UNCHANGED configVars

\* ------------------------------------------------------------------ inputs
\* values of an environment variable: unset, empty, a name the documents may
\* define, a name no document defines
EnvValues == {Undefined, ""} \cup (EnvNames \ {"production"}) \cup {"constructor"}

ProcEnv(test, playwright, node, ci) ==
  [TEST_ENV |-> test, PLAYWRIGHT_ENV |-> playwright, NODE_ENV |-> node, CI |-> ci]

\* command lines: no --env=, one, one after another argument, two, an empty
\* value, a value holding '=', and --env without '='
Argvs ==
  { <<>>,
    << <<"--headed">> >>,
    << <<"--env", "staging">> >>,
    << <<"--env", "local">> >>,
    << <<"--env", "">> >>,
    << <<"--env">>, <<"--env", "constructor">> >>,
    << <<"--headed">>, <<"--env", "staging">> >>,
    << <<"--env", "local">>, <<"--env", "staging">> >>,
    << <<"--env", "local", "staging">> >> }

\* documents that fail validateConfigStructure as a whole, or only warn
OddDocs ==
  { JsonFile(JsUndefined, DemoCredentials),
    JsonFile(JsNum(1), DemoCredentials),
    JsonFile(JsObject(<<"staging">>, [k \in {"staging"} |-> GoodEntry]), JsUndefined) }

InitSite(defaultFile, specificFile, penv, args, page) ==
  /\ site = page
  /\ clock = 0
  /\ runs = <<>>
  /\ files = {}
  /\ emitted = <<>>
  /\ errors = <<>>
  /\ frame = NoFrame
  /\ log = <<>>
  /\ ended = NoResult
  /\ dom = [selector \in Selectors |-> FALSE]
  /\ call = Idle
  /\ calls = 0
  /\ trace = <<>>
  /\ outcome = NoCall
  /\ fsDefault = defaultFile
  /\ fsSpecific = specificFile
  /\ procEnv = penv
  /\ argv = args
  /\ moduleState = "unloaded"
  /\ instance = NoInstance
  /\ nextId = 1
  /\ thrown = ""
  /\ console = <<>>
  /\ ret = NoCall
  /\ steps = 0

InitWith(defaultFile, specificFile, penv, args) ==
  InitSite(defaultFile, specificFile, penv, args, BlankSite)

\* every combination of the four sources over well-formed documents; every
\* document, defective ones included, under a few settings; and an
\* environment-specific file beside the default one
Init ==
  \/ \E doc \in DocsOver({GoodEntry}, MaxEnvs), args \in Argvs,
        test \in EnvValues, playwright \in EnvValues \ {""}, node \in EnvValues \ {""} :
       InitWith(doc, MissingFile, ProcEnv(test, playwright, node, Undefined), args)
  \/ \E doc \in DocsOver(ValidEntries \cup DefectiveEntries, MaxEnvs)
                  \cup OddDocs \cup {MissingFile, MalformedFile},
        test \in {Undefined, "staging", "constructor"}, ci \in {Undefined, "true"} :
       InitWith(doc, MissingFile, ProcEnv(test, Undefined, Undefined, ci), <<>>)
  \/ \E doc \in DocsOver({GoodEntry}, 1) \cup {MissingFile},
        specific \in DocsOver({GoodEntry}, 1) \cup {MalformedFile},
        node \in {Undefined, "local"} :
       InitWith(doc, specific, ProcEnv(Undefined, Undefined, node, Undefined), <<>>)

Next ==
  \/ ImportModule
  \/ GetInstance
  \/ GetCurrentEnvironment
  \/ GetFullBaseUrl
  \/ GetCurrentEnvironmentName
  \/ GetConfig
  \/ GetAllEnvironments
  \/ \E type \in {"demo", "admin"} : GetCredentials(type)
  \/ GetTimeout
  \/ GetRetries
  \/ ScenarioStep

vars == <<configVars, pageVars>>

Spec == Init /\ [][Next]_vars

\* one environment, "production", with every baseUrl and basePath of the
\* bounded lengths
InitUrl ==
  \E baseUrl \in SeqsUpTo(Chars, MaxUrlLen), basePath \in SeqsUpTo(Chars, MaxPathLen) :
    InitWith(JsonFile(JsObject(<<"production">>,
                 [k \in {"production"} |->
                    [GoodEntry EXCEPT !.baseUrl = JsStr(baseUrl), !.basePath = JsStr(basePath)]]),
               DemoCredentials),
             MissingFile, ProcEnv(Undefined, Undefined, Undefined, Undefined), <<>>)

SpecUrl == InitUrl /\ [][Next]_vars

\* the page abstraction driven by a scenario, on the configuration of the README
PageNext ==
  \/ ImportModule
  \/ \E selector \in Selectors : Click(selector)
  \/ \E selector \in Selectors : Fill(selector, "demouser")
  \/ WaitForElement
  \/ Interact
  \/ \E selector \in Selectors : DomChange(selector)

InitPage ==
  \E doc \in DocsOver({GoodEntry}, 1) :
    InitWith(doc, MissingFile, ProcEnv(Undefined, Undefined, Undefined, Undefined), <<>>)

SpecPage == InitPage /\ [][PageNext]_vars

\* ================================================================== claims
\* the document the run loads
Document == resolveConfigPath(fsDefault, fsSpecific)

\* the document is JSON whose environments object passes load validation
PassesValidation ==
  /\ Document.kind = "json"
  /\ validateConfigStructure(Document).isValid

\* the environment names the document defines
Defined_Names ==
  IF Document.kind = "json" /\ Document.environments.t = "object"
    THEN Range(Document.environments.keys) ELSE {}

\* the value of the four sources and of the default
CommandLineValue == parseCommandLineArgument(argv)

SourceValues ==
  {procEnv.TEST_ENV, CommandLineValue, procEnv.PLAYWRIGHT_ENV, procEnv.NODE_ENV}

\* C1: for every document that passes load validation and defines at least
\* one environment, and every value of TEST_ENV, --env=, PLAYWRIGHT_ENV and
\* NODE_ENV, construction ends with a current environment that is a key of
\* the document, getCurrentEnvironment() returning that entry.
C1_ResolvesToDocumentKey ==
  (moduleState # "unloaded" /\ PassesValidation /\ Defined_Names # {}) =>
    /\ moduleState = "loaded"
    /\ instance.currentEnvironment \in Defined_Names
    /\ getCurrentEnvironment(instance) =
         [threw |-> FALSE,
          value |-> Document.environments.get[instance.currentEnvironment]]

\* C2: with TEST_ENV=staging and a document that defines "staging", the
\* current environment is "staging" whatever --env=, PLAYWRIGHT_ENV and
\* NODE_ENV say.
C2_TestEnvStagingWins ==
  (moduleState # "unloaded" /\ PassesValidation
   /\ procEnv.TEST_ENV = "staging" /\ "staging" \in Defined_Names) =>
    /\ moduleState = "loaded"
    /\ instance.currentEnvironment = "staging"

C2_Witness ==
  /\ moduleState = "loaded"
  /\ procEnv.TEST_ENV = "staging"
  /\ CommandLineValue = "local"
  /\ procEnv.PLAYWRIGHT_ENV = "local"
  /\ "local" \in Defined_Names
  /\ instance.currentEnvironment = "staging"

\* C3 as stated: the --env= argument is consulted before the dedicated
\* environment variable: with --env=A and TEST_ENV=B, both configured and
\* different, the resolved environment is A.
C3_CommandLineArgumentFirst ==
  (moduleState = "loaded"
   /\ CommandLineValue \in Defined_Names /\ procEnv.TEST_ENV \in Defined_Names
   /\ CommandLineValue # procEnv.TEST_ENV) =>
    instance.currentEnvironment = CommandLineValue

\* C3 amended: the resolved environment is the first of TEST_ENV, --env=,
\* PLAYWRIGHT_ENV, NODE_ENV, "production" that names an environment of the
\* document; with --env=A and TEST_ENV=B, both configured, it is B.
C3_TestEnvThenArgumentOrder ==
  moduleState = "loaded" =>
    LET current == instance.currentEnvironment
        test == procEnv.TEST_ENV \in Defined_Names
        argument == CommandLineValue \in Defined_Names
        playwright == procEnv.PLAYWRIGHT_ENV \in Defined_Names
        node == procEnv.NODE_ENV \in Defined_Names
    IN /\ test => current = procEnv.TEST_ENV
       /\ (~test /\ argument) => current = CommandLineValue
       /\ (~test /\ ~argument /\ playwright) => current = procEnv.PLAYWRIGHT_ENV
       /\ (~test /\ ~argument /\ ~playwright /\ node) => current = procEnv.NODE_ENV
       /\ (~test /\ ~argument /\ ~playwright /\ ~node /\ "production" \in Defined_Names)
            => current = "production"

C3_Witness ==
  /\ moduleState = "loaded"
  /\ CommandLineValue \in Defined_Names
  /\ procEnv.TEST_ENV \in Defined_Names
  /\ CommandLineValue # procEnv.TEST_ENV
  /\ instance.currentEnvironment = procEnv.TEST_ENV

\* C4: when no source and not the default "production" names an environment
\* of the document, and the document defines at least one, resolution selects
\* the first environment of the document and warns; a source that is unset,
\* empty or names an undefined environment is skipped, not an error.
C4_FallbackToFirstDefined ==
  (moduleState # "unloaded" /\ PassesValidation /\ Defined_Names # {}
   /\ SourceValues \cap Defined_Names = {} /\ "production" \notin Defined_Names) =>
    /\ moduleState = "loaded"
    /\ instance.currentEnvironment = Document.environments.keys[1]
    /\ \E i \in DOMAIN console :
         /\ console[i].level = "warn"
         /\ console[i].text = "Using fallback environment"
         /\ console[i].arg = Document.environments.keys[1]

\* C5: when the configuration document is missing, is not valid JSON or
\* defines zero environments, constructing the ConfigManager fails with a
\* configuration error and no current environment is ever selected: there is
\* no instance, in this state and in every later one.
C5_NoDocumentNoEnvironment ==
  (moduleState # "unloaded"
   /\ (Document.kind \in {"missing", "malformed"} \/ Defined_Names = {})) =>
    /\ moduleState = "failed"
    /\ thrown # ""
    /\ ret.threw
    /\ instance = NoInstance

C5_Witness ==
  /\ moduleState = "failed"
  /\ Document.kind = "json"
  /\ Document.environments.t = "object"
  /\ Document.environments.keys = <<>>
  /\ thrown = "No valid environments found in configuration"

\* an entry whose baseUrl is missing, empty or not a URL, or whose basePath
\* is missing or empty
HasDefect(entry) ==
  \/ ~Truthy(entry.baseUrl)
  \/ ~Truthy(entry.basePath)
  \/ IF entry.baseUrl.t = "string" THEN ~isValidUrl(entry.baseUrl.s) ELSE TRUE

ValidationFailed ==
  /\ moduleState = "failed"
  /\ thrown = "Failed to load configuration: Configuration validation failed"

C8_CurrentEnvironmentIsStable ==
  [][moduleState = "loaded" =>
       /\ instance' = instance
       /\ (ret'.op = "getInstance") => (~ret'.threw /\ ret'.value = instance.id)
       /\ (ret'.op = "getCurrentEnvironmentName") =>
            ret'.value = instance.currentEnvironment
       /\ (ret'.op = "getCurrentEnvironment") =>
            /\ ~ret'.threw
            /\ ret'.value = Document.environments.get[instance.currentEnvironment]]_vars

C8_Witness ==
  /\ moduleState = "loaded"
  /\ steps > 0
  /\ ret.op = "getCurrentEnvironment"
  /\ ret.value = Document.environments.get[instance.currentEnvironment]
  /\ instance.id = 1

\* C9: a configuration failure aborts the run before any scenario starts: in
\* a run whose configuration loading or environment resolution failed, no
\* scenario step and no page operation is ever executed.
C9_NoScenarioAfterConfigurationFailure ==
  moduleState = "failed" => (steps = 0 /\ calls = 0 /\ trace = <<>> /\ call = Idle)

C9_Witness ==
  /\ moduleState = "failed"
  /\ thrown = "Selected environment is missing required configuration"
  /\ steps = 0

\* the current environment's baseUrl and basePath as the document gives them
CurrentBaseUrl == Document.environments.get[instance.currentEnvironment].baseUrl.s

CurrentBasePath == Document.environments.get[instance.currentEnvironment].basePath.s

EndsWithSlash(s) == Len(s) > 0 /\ s[Len(s)] = "/"

StartsWithSlash(s) == Len(s) > 0 /\ s[1] = "/"

\* the host part: baseUrl without the slash at the join, if it has one
HostOf(baseUrl) ==
  IF EndsWithSlash(baseUrl) THEN SubSeq(baseUrl, 1, Len(baseUrl) - 1) ELSE baseUrl

\* the path part: basePath without the slash at the join, if it has one
PathOf(basePath) ==
  IF StartsWithSlash(basePath) THEN SubSeq(basePath, 2, Len(basePath)) ELSE basePath

\* C7: getFullBaseUrl() is insensitive to slash placement at the join: for a
\* host H (not ending in '/') and a path P (not starting with '/'), baseUrl H
\* or H/ with basePath P or /P all give H/P, with exactly one '/' between.
C7_OneSlashAtTheJoin ==
  (moduleState = "loaded" /\ ret.op = "getFullBaseUrl"
   /\ ~EndsWithSlash(HostOf(CurrentBaseUrl))
   /\ ~StartsWithSlash(PathOf(CurrentBasePath))) =>
    LET joined == HostOf(CurrentBaseUrl) \o <<"/">> \o PathOf(CurrentBasePath)
    IN IF isValidUrl(joined)
         THEN ~ret.threw /\ ret.value = joined
         ELSE ret.threw

\* baseUrl "x:/x/" with basePath "x": the slash comes from the baseUrl side
C7_Witness ==
  /\ moduleState = "loaded"
  /\ ret.op = "getFullBaseUrl"
  /\ ~ret.threw
  /\ CurrentBaseUrl = <<"x", ":", "/", "x", "/">>
  /\ CurrentBasePath = <<"x">>
  /\ ret.value = <<"x", ":", "/", "x", "/", "x">>

\* C10: click(selector) and fill(selector, value) perform
\* waitForElement(selector) first and execute the click or fill only after
\* that wait succeeded; if the wait fails, the failure is propagated to the
\* caller and the click or fill is never executed.
C10_WaitBeforeInteraction ==
  /\ \A i \in DOMAIN trace :
       trace[i].fn \in {"click", "fill"} =>
         /\ i > 1
         /\ trace[i - 1] = [n |-> trace[i].n, fn |-> "waitForSelector",
                            selector |-> trace[i].selector, ok |-> TRUE]
  /\ \A i \in DOMAIN trace :
       (trace[i].fn = "waitForSelector" /\ ~trace[i].ok) =>
         /\ \A j \in DOMAIN trace :
              trace[j].n = trace[i].n => trace[j].fn \notin {"click", "fill"}
         /\ (call = Idle \/ call.n # trace[i].n)
         /\ (outcome.op # "none" /\ outcome.n = trace[i].n) => outcome.threw

\* a fill whose wait timed out, then a click that waited and was executed
C10_Witness ==
  /\ Len(trace) = 3
  /\ trace[1].fn = "waitForSelector" /\ ~trace[1].ok
  /\ trace[2].fn = "waitForSelector" /\ trace[2].ok
  /\ trace[3].fn = "click" /\ trace[3].ok
  /\ outcome = [n |-> 2, op |-> "click", selector |-> trace[3].selector, threw |-> FALSE]

\* ============================================================== page views
\* Methods of the page classes and of the scenarios are run one framework
\* call at a time.  A method is an operator of its position pc, its locals v
\* and the outcome o of the framework call it awaited there; it answers with
\* the next framework call to await, a return value, or an error to throw.
MaxRuns == 1
MaxTextLen == 2

\* rows of pull requests the page lists
MaxPRs == 2

\* runs of the export scenario the harness has in flight, and the
\* milliseconds that pass while they run
MaxWorkers == 2

MaxClock == 2

\* links the validation scenario requests, anchors the page shows
MaxLinks == 5

MaxAnchors == 3

\* framework calls one method run may await
MaxAwaits == 8

\* text content an element can have: null, or spaces and letters
TextChars == {" ", "a"}

JsNull == [t |-> "null"]

Texts == {JsNull} \cup {JsStr(s) : s \in SeqsUpTo(TextChars, MaxTextLen)}

\* environments.json as the README gives it, cut down to one environment
ReadmeDoc ==
  JsonFile(JsObject(<<"production">>, [k \in {"production"} |-> GoodEntry]), DemoCredentials)

\* a call on the framework's page handle
PageCall(fn, selector, timeout) == [fn |-> fn, selector |-> selector, timeout |-> timeout]

NoOutcome == [ok |-> TRUE, value |-> FALSE, why |-> "none"]

Resolved(value) == [ok |-> TRUE, value |-> value, why |-> "resolved"]

Rejected(why, value) == [ok |-> FALSE, value |-> value, why |-> why]

Await(pc, v, pageCall) == [do |-> "await", pc |-> pc, v |-> v, call |-> pageCall, value |-> FALSE]

Return(value) == [do |-> "return", value |-> value]

Raise(error) == [do |-> "throw", value |-> error]

\* x || fallback on a string
OrElse(str, fallback) == IF str = <<>> THEN fallback ELSE str

\* url.includes(word), /word/ matching url: an address is a sequence of words
Includes(url, word) == \E i \in DOMAIN url : url[i] = word

\* new URL(url).hostname: the first word of an address
Hostname(url) == url[1]

\* where the browser can be when goto(target) resolves: at the target, on
\* another host after a redirect, or on another host whose address quotes
\* the target's hostname
Landings(target) == {target, <<"elsewhere">>, <<"elsewhere", Hostname(target)>>}

\* how a framework call can settle on the page as it is now.  Every call is
\* rejected when the page is closed under it; a wait for visibility resolves
\* when the element is visible and times out when it is not; a locator's
\* isVisible() answers at once; textContent() and the interactions need the
\* element and time out without it; the race of waitForURL(/account/) with
\* waitForSelector(selector) resolves when either could, else rejects with
\* the timeout; waitForTimeout resolves.  The method that goes on after a
\* race or a pause reads the address before the page handles another event:
\* these outcomes carry the address of that moment.  goto(url) resolves
\* with the address the browser landed on, or rejects; waitForLoadState
\* resolves or rejects; a locator's count() resolves with the number of
\* matching elements, one or none here; all() resolves with the anchors of
\* the page, getAttribute('href') with the href of its anchor (the call holds
\* the anchor in the place of the selector), a locator's textContent() with
\* an empty or a non-empty text, and each of them can reject.
Outcomes(c) ==
  CASE c.fn = "waitForSelector" ->
         (IF c.selector \in site.visible
            THEN {Resolved(TRUE)} ELSE {Rejected("timeout", FALSE)})
         \cup {Rejected("closed", FALSE)}
    [] c.fn = "locator.isVisible" ->
         {Resolved(c.selector \in site.visible), Rejected("closed", FALSE)}
    [] c.fn = "textContent" ->
         (IF c.selector \in site.visible
            THEN {Resolved(site.text)}
            ELSE {Resolved(site.text), Rejected("timeout", JsNull)})
         \cup {Rejected("closed", JsNull)}
    [] c.fn \in {"fill", "click"} ->
         (IF c.selector \in site.visible
            THEN {Resolved(TRUE)} ELSE {Rejected("timeout", FALSE)})
         \cup {Rejected("closed", FALSE)}
    [] c.fn = "race" ->
         (IF Includes(site.url, "account") \/ c.selector \in site.visible
            THEN {Resolved(site.url)} ELSE {Rejected("timeout", site.url)})
         \cup {Rejected("closed", site.url)}
    [] c.fn = "waitForTimeout" -> {Resolved(site.url), Rejected("closed", site.url)}
    [] c.fn = "goto" ->
         {Resolved(url) : url \in Landings(c.selector)}
         \cup {Rejected("timeout", <<>>), Rejected("closed", <<>>)}
    [] c.fn = "waitForLoadState" ->
         {Resolved(TRUE), Rejected("timeout", FALSE), Rejected("closed", FALSE)}
    [] c.fn = "inputValue" ->
         {Resolved(<<"v">>), Resolved(<<>>), Rejected("closed", <<>>)}
    [] c.fn = "locator.count" ->
         {Resolved(IF c.selector \in site.visible THEN 1 ELSE 0), Rejected("closed", 0)}
    [] c.fn = "locator.all" -> {Resolved(site.anchors), Rejected("closed", <<>>)}
    [] c.fn = "getAttribute" -> {Resolved(c.selector), Rejected("closed", <<>>)}
    [] c.fn = "locator.textContent" ->
         {Resolved(<<>>), Resolved(<<"t">>), Rejected("closed", <<>>)}
    [] OTHER -> {Rejected("closed", FALSE)}

\* ---------------------------------------------------------------- BasePage
\* x || '' on what textContent() resolved with
OrEmpty(text) ==
  IF text.t = "null" THEN JsStr(<<>>)
  ELSE IF text.s = <<>> THEN JsStr(<<>>) ELSE text

\* faulty variant: the rejection of the wait is passed on
isVisible_Rethrows(selector, pc, v, o) ==
  CASE pc = "start" ->
         Await("waitForSelector", v, PageCall("waitForSelector", selector, 1000))
    [] pc = "waitForSelector" -> IF o.ok THEN Return(TRUE) ELSE Raise(o.why)

\* try { await this.page.waitForSelector(...); return true } catch { return false }
isVisible(selector, pc, v, o) ==
  CASE pc = "start" ->
         Await("waitForSelector", v, PageCall("waitForSelector", selector, 1000))
    [] pc = "waitForSelector" -> Return(o.ok)

\* faulty variant: a missing text content is returned as null
getText_NoDefault(selector, pc, v, o) ==
  CASE pc = "start" ->
         Await("waitForElement", v, PageCall("waitForSelector", selector, 5000))
    [] pc = "waitForElement" ->
         IF o.ok THEN Await("textContent", v, PageCall("textContent", selector, 0))
         ELSE Raise(o.why)
    [] pc = "textContent" -> IF o.ok THEN Return(o.value) ELSE Raise(o.why)

\* await this.waitForElement(selector); return await this.page.textContent(selector) || ''
getText(selector, pc, v, o) ==
  CASE pc = "start" ->
         Await("waitForElement", v, PageCall("waitForSelector", selector, 5000))
    [] pc = "waitForElement" ->
         IF o.ok THEN Await("textContent", v, PageCall("textContent", selector, 0))
         ELSE Raise(o.why)
    [] pc = "textContent" -> IF o.ok THEN Return(OrEmpty(o.value)) ELSE Raise(o.why)

\* BasePage.hasEssentialElements(headingSelector, contentSelector) of the
\* second base-page: a || b and a && b await b only when a does not decide
BasePage_hasEssentialElements(headingSel, contentSel, pc, v, o) ==
  IF ~o.ok THEN Raise(o.why)
  ELSE CASE pc = "start" ->
         Await("hasHeading", v, PageCall("locator.isVisible", headingSel, 0))
    [] pc = "hasHeading" ->
         IF o.value
           THEN Await("hasMainContent", [v EXCEPT !.hasHeading = TRUE],
                      PageCall("locator.isVisible", contentSel, 0))
           ELSE Await("hasHeadingBody", v, PageCall("locator.isVisible", "body", 0))
    [] pc = "hasHeadingBody" ->
         Await("hasMainContent", [v EXCEPT !.hasHeading = o.value],
               PageCall("locator.isVisible", contentSel, 0))
    [] pc = "hasMainContent" ->
         Await("bodyHasContent", [v EXCEPT !.hasMainContent = o.value],
               PageCall("locator.isVisible", "body", 0))
    [] pc = "bodyHasContent" ->
         IF o.value
           THEN Await("bodyHasContentChild", v, PageCall("locator.isVisible", "body *", 0))
           ELSE Return(v.hasHeading /\ v.hasMainContent)
    [] pc = "bodyHasContentChild" ->
         Return((v.hasHeading /\ v.hasMainContent) \/ o.value)

\* ---------------------------------------------------------------- HomePage
HomeLocals ==
  [hasHeading |-> FALSE, hasNavigation |-> FALSE, hasMainContent |-> FALSE,
   hasBasicElements |-> FALSE]

\* faulty variant: the main content is not asked for
HomePage_hasEssentialElements_NoContent(pc, v, o) ==
  CASE pc = "start" ->
         Await("hasHeading", v, PageCall("waitForSelector", "mainHeading", 1000))
    [] pc = "hasHeading" ->
         Await("hasNavigation", [v EXCEPT !.hasHeading = o.ok],
               PageCall("waitForSelector", "navigation", 1000))
    [] pc = "hasNavigation" -> Return(v.hasHeading /\ o.ok)

\* home-page with this.isVisible on heading, navigation and main content
HomePage_hasEssentialElements(pc, v, o) ==
  CASE pc = "start" ->
         Await("hasHeading", v, PageCall("waitForSelector", "mainHeading", 1000))
    [] pc = "hasHeading" ->
         Await("hasNavigation", [v EXCEPT !.hasHeading = o.ok],
               PageCall("waitForSelector", "navigation", 1000))
    [] pc = "hasNavigation" ->
         Await("hasMainContent", [v EXCEPT !.hasNavigation = o.ok],
               PageCall("waitForSelector", "mainContent", 1000))
    [] pc = "hasMainContent" -> Return(v.hasHeading /\ v.hasNavigation /\ o.ok)

\* the step of super.hasEssentialElements(...), then the navigation check
HomePage_AfterSuper(v, step) ==
  IF step.do = "return"
    THEN Await("hasNavigation", [v EXCEPT !.hasBasicElements = step.value],
               PageCall("locator.isVisible", "navigation", 0))
    ELSE step

\* home-page built on super.hasEssentialElements(mainHeading, mainContent)
HomePage_hasEssentialElements_Super(pc, v, o) ==
  IF pc = "hasNavigation"
    THEN IF o.ok THEN Return(v.hasBasicElements /\ o.value) ELSE Raise(o.why)
    ELSE HomePage_AfterSuper(
           v, BasePage_hasEssentialElements("mainHeading", "mainContent", pc, v, o))

\* --------------------------------------------------------------- LoginPage
\* BasePage.click(selector) / fill(selector, value): await
\* this.waitForElement(selector), then the interaction on the page
BasePage_act(fn, selector, pc, v, o) ==
  IF ~o.ok THEN Raise(o.why)
  ELSE CASE pc = "start" ->
         Await("waitForElement", v, PageCall("waitForSelector", selector, 5000))
    [] pc = "waitForElement" -> Await("act", v, PageCall(fn, selector, 0))
    [] pc = "act" -> Return(FALSE)

\* if (await locator.isVisible()) { await locator.fill(value) / click() }
Locator_actIfVisible(fn, selector, pc, v, o) ==
  IF ~o.ok THEN Raise(o.why)
  ELSE CASE pc = "start" ->
         Await("isVisible", v, PageCall("locator.isVisible", selector, 0))
    [] pc = "isVisible" ->
         IF o.value THEN Await("act", v, PageCall(fn, selector, 0)) ELSE Return(FALSE)
    [] pc = "act" -> Return(FALSE)

\* the three statements of login(username, password)
LoginSteps ==
  << [fn |-> "fill", selector |-> "username"],
     [fn |-> "fill", selector |-> "password"],
     [fn |-> "click", selector |-> "loginButton"] >>

\* login of pages/login-page.ts: this.fill, this.fill, this.click
LoginPage_login(pc, v, o) ==
  IF ~o.ok THEN Raise(o.why)
  ELSE IF pc # "act" THEN
    BasePage_act(LoginSteps[v.stmt].fn, LoginSteps[v.stmt].selector, pc, v, o)
  ELSE IF v.stmt = Len(LoginSteps) THEN Return(FALSE)
  ELSE BasePage_act(LoginSteps[v.stmt + 1].fn, LoginSteps[v.stmt + 1].selector,
                    "start", [v EXCEPT !.stmt = @ + 1], NoOutcome)

\* what follows a statement of the alternative login: the next one, or the end
LoginPage_next(v) ==
  IF v.stmt = Len(LoginSteps) THEN Return(FALSE)
  ELSE Locator_actIfVisible(LoginSteps[v.stmt + 1].fn, LoginSteps[v.stmt + 1].selector,
                            "start", [v EXCEPT !.stmt = @ + 1], NoOutcome)

\* login of the alternative login-page: each field is used only if visible
LoginPage_login_IfVisible(pc, v, o) ==
  IF ~o.ok THEN Raise(o.why)
  ELSE IF pc = "act" \/ (pc = "isVisible" /\ ~o.value) THEN LoginPage_next(v)
  ELSE Locator_actIfVisible(LoginSteps[v.stmt].fn, LoginSteps[v.stmt].selector, pc, v, o)

\* await Promise.race([waitForURL(/account/), waitForSelector(errorMessage)])
\*   .catch(() => {}); return !this.getCurrentUrl().includes('login')
LoginPage_isLoginSuccessful(pc, v, o) ==
  CASE pc = "start" -> Await("race", v, PageCall("race", "errorMessage", 5000))
    [] pc = "race" -> Return(~Includes(o.value, "login"))

\* await this.page.waitForTimeout(2000); return !this.getCurrentUrl().includes('login')
LoginPage_isLoginSuccessful_Pause(pc, v, o) ==
  CASE pc = "start" -> Await("waitForTimeout", v, PageCall("waitForTimeout", "", 2000))
    [] pc = "waitForTimeout" ->
         IF o.ok THEN Return(~Includes(o.value, "login")) ELSE Raise(o.why)

FormLocals == [hasUsername |-> FALSE, hasPassword |-> FALSE, hasButton |-> FALSE]

\* faulty variant: the submit button is not asked for
LoginPage_hasFormElements_NoButton(pc, v, o) ==
  CASE pc = "start" ->
         Await("hasUsername", v, PageCall("waitForSelector", "username", 1000))
    [] pc = "hasUsername" ->
         Await("hasPassword", [v EXCEPT !.hasUsername = o.ok],
               PageCall("waitForSelector", "password", 1000))
    [] pc = "hasPassword" -> Return(v.hasUsername /\ o.ok)

\* hasFormElements of pages/login-page.ts: three this.isVisible probes
LoginPage_hasFormElements(pc, v, o) ==
  CASE pc = "start" ->
         Await("hasUsername", v, PageCall("waitForSelector", "username", 1000))
    [] pc = "hasUsername" ->
         Await("hasPassword", [v EXCEPT !.hasUsername = o.ok],
               PageCall("waitForSelector", "password", 1000))
    [] pc = "hasPassword" ->
         Await("hasButton", [v EXCEPT !.hasPassword = o.ok],
               PageCall("waitForSelector", "loginButton", 1000))
    [] pc = "hasButton" -> Return(v.hasUsername /\ v.hasPassword /\ o.ok)

\* hasFormElements of the alternative login-page: three locator probes, then
\* form visible && input[type="password"] visible as a second way to be true
LoginPage_hasFormElements_AnyForm(pc, v, o) ==
  IF ~o.ok THEN Raise(o.why)
  ELSE CASE pc = "start" ->
         Await("hasUsername", v, PageCall("locator.isVisible", "username", 0))
    [] pc = "hasUsername" ->
         Await("hasPassword", [v EXCEPT !.hasUsername = o.value],
               PageCall("locator.isVisible", "password", 0))
    [] pc = "hasPassword" ->
         Await("hasButton", [v EXCEPT !.hasPassword = o.value],
               PageCall("locator.isVisible", "loginButton", 0))
    [] pc = "hasButton" ->
         Await("hasAnyLoginForm", [v EXCEPT !.hasButton = o.value],
               PageCall("locator.isVisible", "form", 0))
    [] pc = "hasAnyLoginForm" ->
         IF o.value
           THEN Await("hasAnyLoginFormPassword", v,
                      PageCall("locator.isVisible", "input[type=password]", 0))
           ELSE Return(v.hasUsername /\ v.hasPassword /\ v.hasButton)
    [] pc = "hasAnyLoginFormPassword" ->
         Return((v.hasUsername /\ v.hasPassword /\ v.hasButton) \/ o.value)

\* -------------------------------------------------------------- navigation
\* BasePage.navigate(path): goto(`${this.baseUrl}${path}`), then
\* waitForLoadState('networkidle'); nothing is caught
navigate(baseUrl, path, pc, v, o) ==
  IF ~o.ok THEN Raise(o.why)
  ELSE CASE pc = "start" -> Await("goto", v, PageCall("goto", baseUrl \o path, 0))
    [] pc = "goto" -> Await("waitForLoadState", v, PageCall("waitForLoadState", "networkidle", 0))
    [] pc = "waitForLoadState" -> Return(FALSE)

\* no options argument
NoOptions == [timeout |-> 0]

\* options?.timeout || configManager.getTimeout()
NavigationTimeout(options) ==
  IF options.timeout # 0 THEN [threw |-> FALSE, value |-> options.timeout]
  ELSE LET env == getCurrentEnvironment(instance)
       IN IF env.threw THEN [threw |-> TRUE]
          ELSE [threw |-> FALSE,
                value |-> IF Truthy(env.value.timeout) THEN env.value.timeout.n ELSE 30000]

\* faulty variant: the landing address is not compared with the hostname
navigateToUrl_AnyLanding(url, options, pc, v, o) ==
  CASE pc = "start" ->
         IF NavigationTimeout(options).threw THEN Raise("config")
         ELSE Await("goto", v, PageCall("goto", url, NavigationTimeout(options).value))
    [] pc = "goto" -> IF ~o.ok THEN Raise(o.why) ELSE Return(FALSE)

\* PageHelper.navigateToUrl(url, options) of utils/base-test.ts: one goto,
\* then the hostname test on page.url(); the catch logs and rethrows
navigateToUrl(url, options, pc, v, o) ==
  CASE pc = "start" ->
         IF NavigationTimeout(options).threw THEN Raise("config")
         ELSE Await("goto", v, PageCall("goto", url, NavigationTimeout(options).value))
    [] pc = "goto" ->
         IF ~o.ok THEN Raise(o.why)
         ELSE IF ~Includes(o.value, Hostname(url)) THEN Raise("Navigation failed")
         ELSE Return(FALSE)

\* ------------------------------------- retry loops of the GitHub scenarios
\* const maxAttempts = 3, const maxNavAttempts = 3
maxAttempts == 3

maxNavAttempts == 3

\* faulty variant: the loop waits and tries again after the last allowed failure
exportCaught_NoCap(error, v) ==
  Await("waitForTimeout", [v EXCEPT !.attempt = @ + 1],
        PageCall("waitForTimeout", "", (2 ^ (v.attempt + 1)) * 1000))

\* catch (error) { attempt++; if (attempt < maxAttempts) { wait 2^attempt
\* seconds } else { throw error } }
exportCaught(error, v) ==
  IF v.attempt + 1 < maxAttempts
    THEN Await("waitForTimeout", [v EXCEPT !.attempt = @ + 1],
               PageCall("waitForTimeout", "", (2 ^ (v.attempt + 1)) * 1000))
    ELSE Raise(error)

\* try { await pageHelper.navigateToUrl(githubUrl); navSuccess = true }
exportAttempt(url, pc, v, o, step) ==
  CASE step.do = "await" -> step
    [] step.do = "return" -> Return(TRUE)
    [] step.do = "throw" -> exportCaught(step.value, v)

\* while (!navSuccess && attempt < maxAttempts) of the export scenario
exportLoop(url, pc, v, o) ==
  IF pc = "waitForTimeout"
    THEN IF ~o.ok THEN Raise(o.why)
         ELSE exportAttempt(url, "start", v, NoOutcome,
                            navigateToUrl(url, NoOptions, "start", v, NoOutcome))
    ELSE exportAttempt(url, pc, v, o, navigateToUrl(url, NoOptions, pc, v, o))

\* catch (error) { navAttempt++; if (navAttempt < maxNavAttempts) { wait
\* 2000 * navAttempt } }; with the cap reached the loop ends, pageLoaded false
loadCaught(v) ==
  IF v.navAttempt + 1 < maxNavAttempts
    THEN Await("waitForTimeout", [v EXCEPT !.navAttempt = @ + 1],
               PageCall("waitForTimeout", "", 2000 * (v.navAttempt + 1)))
    ELSE Return(FALSE)

\* try { await pageHelper.navigateToUrl(githubUrl, { timeout: 20000 });
\*       pageLoaded = await page.waitForSelector('body', ...)...; }
loadAttempt(url, pc, v, o, step) ==
  CASE step.do = "await" -> step
    [] step.do = "return" -> Await("body", v, PageCall("waitForSelector", "body", 10000))
    [] step.do = "throw" -> loadCaught(v)

\* while (!pageLoaded && navAttempt < maxNavAttempts) of the rate-limiting
\* scenario: pageLoaded = body found; if (pageLoaded) break; a body that is
\* not found is no exception, the loop goes round with navAttempt as it was
loadLoop(url, pc, v, o) ==
  CASE pc = "body" ->
         IF o.ok THEN Return(TRUE)
         ELSE loadAttempt(url, "start", v, NoOutcome,
                          navigateToUrl(url, [timeout |-> 20000], "start", v, NoOutcome))
    [] pc = "waitForTimeout" ->
         IF ~o.ok THEN Raise(o.why)
         ELSE loadAttempt(url, "start", v, NoOutcome,
                          navigateToUrl(url, [timeout |-> 20000], "start", v, NoOutcome))
    [] OTHER -> loadAttempt(url, pc, v, o, navigateToUrl(url, [timeout |-> 20000], pc, v, o))

\* ------------------------------------------- verifySuccessfulLogin
\* true counts one
Indicator(passed) == IF passed THEN 1 ELSE 0

\* the five loginIndicators run in order, each inside try/catch; the first
\* two read currentUrl, taken when the function starts; the fourth is
\* !(await isVisible().catch(() => false)); the answer is
\* successIndicators >= 2, which the function hands to expect
verifySuccessfulLogin(currentUrl, pc, v, o) ==
  CASE pc = "start" ->
         Await("welcome",
               [v EXCEPT !.successIndicators =
                  Indicator(~Includes(currentUrl, "login.html"))
                  + Indicator(Includes(currentUrl, "dashboard") \/ Includes(currentUrl, "home")
                              \/ Includes(currentUrl, "profile"))],
               PageCall("locator.count", "welcome", 0))
    [] pc = "welcome" ->
         Await("password",
               [v EXCEPT !.successIndicators = @ + Indicator(o.ok /\ o.value > 0)],
               PageCall("locator.isVisible", "input[type=password]", 0))
    [] pc = "password" ->
         Await("nav",
               [v EXCEPT !.successIndicators = @ + Indicator(~(IF o.ok THEN o.value ELSE FALSE))],
               PageCall("locator.count", "nav", 0))
    [] pc = "nav" ->
         Return(v.successIndicators + Indicator(o.ok /\ o.value > 0) >= 2)

\* ------------------------------------------------------ helper functions
\* waitForAsyncErrors(page, timeout = 2000): waitForTimeout, then
\* try { waitForLoadState('networkidle', 3000) } catch { }
waitForAsyncErrors(timeout, pc, v, o) ==
  CASE pc = "start" -> Await("waitForTimeout", v, PageCall("waitForTimeout", "", timeout))
    [] pc = "waitForTimeout" ->
         IF o.ok THEN Await("networkidle", v, PageCall("waitForLoadState", "networkidle", 3000))
         ELSE Raise(o.why)
    [] pc = "networkidle" -> Return(FALSE)

\* seq.includes(part) on texts
Contains(text, part) ==
  \E k \in 0..(Len(text) - Len(part)) : SubSeq(text, k + 1, k + Len(part)) = part

\* href.startsWith('http') ? href : new URL(href, baseUrl).toString()
absoluteUrl(href, baseUrl) ==
  IF Head(href) \in {"http:", "https:"} THEN href ELSE baseUrl \o href

\* faulty variant: duplicates are kept
uniqueLinks_KeepAll(linkData, i) ==
  linkData

\* linkData.filter((link, index, self) =>
\*   index === self.findIndex(l => l.url === link.url)), from index i on
RECURSIVE uniqueLinks(_, _)
uniqueLinks(linkData, i) ==
  IF i > Len(linkData) THEN <<>>
  ELSE (IF \A j \in 1..(i - 1) : linkData[j].url # linkData[i].url
          THEN <<linkData[i]>> ELSE <<>>)
       \o uniqueLinks(linkData, i + 1)

\* linkData after the anchor with this href and text was processed
Pushed(linkData, href, text, baseUrl) ==
  IF href # <<>> /\ href # <<"#">> /\ href # <<"javascript:void(0)">>
    THEN Append(linkData,
                [url |-> absoluteUrl(href, baseUrl),
                 text |-> OrElse(text, href),
                 isInternal |-> Contains(absoluteUrl(href, baseUrl), baseUrl)
                                \/ Head(href) = "/"])
    ELSE linkData

\* for (const link of links): the next anchor, or the end of the loop
NextAnchor(v) ==
  IF v.i > Len(v.links) THEN Return(uniqueLinks(v.linkData, 1))
  ELSE Await("href", v, PageCall("getAttribute", v.links[v.i], 0))

\* extractAllLinks(page, baseUrl), the version built on locators: a
\* rejection inside the try skips the anchor
extractAllLinks(baseUrl, pc, v, o) ==
  CASE pc = "start" -> Await("all", v, PageCall("locator.all", "a[href]", 0))
    [] pc = "all" ->
         IF o.ok THEN NextAnchor([v EXCEPT !.links = o.value, !.i = 1]) ELSE Raise(o.why)
    [] pc = "href" ->
         IF o.ok THEN Await("text", [v EXCEPT !.href = o.value],
                            PageCall("locator.textContent", v.links[v.i], 0))
         ELSE NextAnchor([v EXCEPT !.i = @ + 1])
    [] pc = "text" ->
         IF o.ok
           THEN NextAnchor([v EXCEPT !.linkData = Pushed(@, v.href, o.value, baseUrl),
                                     !.i = @ + 1])
           ELSE NextAnchor([v EXCEPT !.i = @ + 1])

\* -------------------------------------------------------------- PageHelper
\* options?.timeout || 10000 without options
HelperTimeout == 10000

\* the catch block of the three loops: the error is rethrown when the
\* selector equals the last entry of the list, else the loop goes on
AfterFailure(selectors, i, first, fn) ==
  IF selectors[i] = selectors[Len(selectors)] THEN Raise("All selectors failed")
  ELSE Await(first, [i |-> i + 1], PageCall(fn, selectors[i + 1], HelperTimeout))

\* the for loop entered: the first selector is attempted, or the list is
\* empty and the method returns
FirstAttempt(selectors, first, fn) ==
  IF selectors = <<>> THEN Return(FALSE)
  ELSE Await(first, [i |-> 1], PageCall(fn, selectors[1], HelperTimeout))

clickElement(selectors, pc, v, o) ==
  CASE pc = "start" -> FirstAttempt(selectors, "click", "click")
    [] pc = "click" ->
         IF o.ok THEN Return(FALSE) ELSE AfterFailure(selectors, v.i, "click", "click")

\* the first await of an attempt of fillInput
FillFirst(clear) == IF clear THEN "clear" ELSE "fill"

fillInput(selectors, value, clear, pc, v, o) ==
  CASE pc = "start" -> FirstAttempt(selectors, FillFirst(clear), "fill")
    [] pc = "clear" ->
         IF o.ok THEN Await("fill", v, PageCall("fill", selectors[v.i], HelperTimeout))
         ELSE AfterFailure(selectors, v.i, FillFirst(clear), "fill")
    [] pc = "fill" ->
         IF o.ok THEN Await("inputValue", v, PageCall("inputValue", selectors[v.i], 0))
         ELSE AfterFailure(selectors, v.i, FillFirst(clear), "fill")
    [] pc = "inputValue" ->
         IF o.ok /\ o.value = value THEN Return(FALSE)
         ELSE AfterFailure(selectors, v.i, FillFirst(clear), "fill")

waitForElement(selectors, pc, v, o) ==
  CASE pc = "start" -> FirstAttempt(selectors, "waitForSelector", "waitForSelector")
    [] pc = "waitForSelector" ->
         IF o.ok THEN Return(FALSE)
         ELSE AfterFailure(selectors, v.i, "waitForSelector", "waitForSelector")

\* ------------------------------------------------------- running a method
\* the method's code at its position
Body(f, o) ==
  CASE f.fn = "isVisible" -> isVisible(f.arg, f.pc, f.v, o)
    [] f.fn = "getText" -> getText(f.arg, f.pc, f.v, o)
    [] f.fn = "HomePage.hasEssentialElements" ->
         IF f.variant = "super"
           THEN HomePage_hasEssentialElements_Super(f.pc, f.v, o)
           ELSE HomePage_hasEssentialElements(f.pc, f.v, o)
    [] f.fn = "navigate" -> navigate(f.arg.baseUrl, f.arg.path, f.pc, f.v, o)
    [] f.fn = "navigateToUrl" -> navigateToUrl(f.arg.url, f.arg.options, f.pc, f.v, o)
    [] f.fn = "exportLoop" -> exportLoop(f.arg, f.pc, f.v, o)
    [] f.fn = "loadLoop" -> loadLoop(f.arg, f.pc, f.v, o)
    [] f.fn = "verifySuccessfulLogin" -> verifySuccessfulLogin(f.arg, f.pc, f.v, o)
    [] f.fn = "waitForAsyncErrors" -> waitForAsyncErrors(f.arg, f.pc, f.v, o)
    [] f.fn = "extractAllLinks" -> extractAllLinks(f.arg, f.pc, f.v, o)
    [] f.fn = "clickElement" -> clickElement(f.arg.selectors, f.pc, f.v, o)
    [] f.fn = "fillInput" ->
         fillInput(f.arg.selectors, f.arg.value, f.arg.clear, f.pc, f.v, o)
    [] f.fn = "waitForElement" -> waitForElement(f.arg.selectors, f.pc, f.v, o)
    [] f.fn = "LoginPage.hasFormElements" ->
         IF f.variant = "anyForm"
           THEN LoginPage_hasFormElements_AnyForm(f.pc, f.v, o)
           ELSE LoginPage_hasFormElements(f.pc, f.v, o)
    [] f.fn = "LoginPage.login" ->
         IF f.variant = "ifVisible"
           THEN LoginPage_login_IfVisible(f.pc, f.v, o)
           ELSE LoginPage_login(f.pc, f.v, o)
    [] f.fn = "LoginPage.isLoginSuccessful" ->
         IF f.variant = "pause"
           THEN LoginPage_isLoginSuccessful_Pause(f.pc, f.v, o)
           ELSE LoginPage_isLoginSuccessful(f.pc, f.v, o)

\* the method goes on to its next framework call, or ends
Run(f, lg, step) ==
  /\ log' = lg
  /\ IF step.do = "await"
       THEN /\ frame' = [f EXCEPT !.pc = step.pc, !.v = step.v, !.call = step.call]
            /\ UNCHANGED ended
       ELSE /\ frame' = NoFrame
            /\ ended' = [n |-> ended.n + 1, fn |-> f.fn, variant |-> f.variant,
                         arg |-> f.arg, threw |-> step.do = "throw", value |-> step.value]

Begun(f) == Run(f, <<>>, Body(f, NoOutcome))

\* a scenario calls a method of a page class
Invoke(fn, variant, arg, v) ==
  /\ ScenarioRuns
  /\ frame = NoFrame
  /\ ended.n < MaxRuns
  /\ Begun([fn |-> fn, variant |-> variant, arg |-> arg, pc |-> "start", v |-> v,
            call |-> PageCall("none", "", 0)])
  /\ UNCHANGED site
  /\ UNCHANGED <<configVars, basePageVars, harnessVars>>

\* the page after a framework call settled: a navigation changes the address
Landed(c, o) ==
  IF c.fn = "goto" /\ o.ok THEN [site EXCEPT !.url = o.value] ELSE site

\* the framework call the method awaits settles
Settle ==
  /\ frame # NoFrame
  /\ Len(log) < MaxAwaits
  /\ \E o \in Outcomes(frame.call) :
       /\ site' = Landed(frame.call, o)
       /\ Run(frame,
              Append(log, [at |-> frame.pc, fn |-> frame.call.fn,
                           selector |-> frame.call.selector,
                           timeout |-> frame.call.timeout,
                           ok |-> o.ok, value |-> o.value, why |-> o.why]),
              Body(frame, o))
  /\ UNCHANGED <<configVars, basePageVars, harnessVars>>

\* the site under test shows or hides an element while a scenario runs
SiteChange(key) ==
  /\ ended.n < MaxRuns
  /\ site' = [site EXCEPT !.visible = IF key \in @ THEN @ \ {key} ELSE @ \cup {key}]
  /\ UNCHANGED <<frame, log, ended>>
  /\ UNCHANGED <<configVars, basePageVars, harnessVars>>

\* ------------------------------------------------------- the home page view
HomeKeys == {"mainHeading", "navigation", "mainContent", "body", "body *"}

InitHome ==
  \E text \in Texts, visible \in {{}, HomeKeys} :
    InitSite(ReadmeDoc, MissingFile, ProcEnv(Undefined, Undefined, Undefined, Undefined),
             <<>>, [visible |-> visible, text |-> text, url |-> <<"index">>])

HomeNext ==
  \/ ImportModule
  \/ \E key \in {"mainHeading", "body *"} : Invoke("isVisible", "base", key, <<>>)
  \/ Invoke("getText", "base", "mainHeading", <<>>)
  \/ \E variant \in {"simple", "super"} :
       Invoke("HomePage.hasEssentialElements", variant, "", HomeLocals)
  \/ Settle
  \/ \E key \in HomeKeys : SiteChange(key)

SpecHome == InitHome /\ [][HomeNext]_vars

\* ------------------------------------------------------ the login page view
LoginKeys ==
  {"username", "password", "loginButton", "errorMessage", "form", "input[type=password]"}

\* login.html, account.html, index.html, and an address holding both words
LoginUrls == {<<"login">>, <<"account">>, <<"index">>, <<"account", "login">>}

\* the browser moves to another address while a scenario runs
UrlChange(url) ==
  /\ ended.n < MaxRuns
  /\ url # site.url
  /\ site' = [site EXCEPT !.url = url]
  /\ UNCHANGED <<frame, log, ended>>
  /\ UNCHANGED <<configVars, basePageVars, harnessVars>>

InitLogin ==
  \E visible \in {{}, LoginKeys \ {"errorMessage"}} :
    InitSite(ReadmeDoc, MissingFile, ProcEnv(Undefined, Undefined, Undefined, Undefined),
             <<>>, [visible |-> visible, text |-> JsNull, url |-> <<"login">>])

LoginNext ==
  \/ ImportModule
  \/ \E variant \in {"simple", "anyForm"} :
       Invoke("LoginPage.hasFormElements", variant, "", FormLocals)
  \/ \E variant \in {"simple", "ifVisible"} :
       Invoke("LoginPage.login", variant, "", [stmt |-> 1])
  \/ \E variant \in {"race", "pause"} :
       Invoke("LoginPage.isLoginSuccessful", variant, "", <<>>)
  \/ Settle
  \/ \E key \in LoginKeys : SiteChange(key)
  \/ \E url \in LoginUrls : UrlChange(url)

SpecLogin == InitLogin /\ [][LoginNext]_vars

\* --------------------------------------------- the page after a login
VerifyKeys == {"welcome", "input[type=password]", "nav"}

VerifyUrls == {<<"login.html">>, <<"account">>, <<"home">>}

InitVerify ==
  \E visible \in SUBSET VerifyKeys, url \in VerifyUrls :
    InitSite(ReadmeDoc, MissingFile, ProcEnv(Undefined, Undefined, Undefined, Undefined),
             <<>>, [visible |-> visible, text |-> JsNull, url |-> url])

VerifyNext ==
  \/ ImportModule
  \/ Invoke("verifySuccessfulLogin", "test", site.url, [successIndicators |-> 0])
  \/ Settle
  \/ \E key \in VerifyKeys : SiteChange(key)

SpecVerify == InitVerify /\ [][VerifyNext]_vars

\* ------------------------------------------------------------- navigation
\* config.github.exampleRepo, and the site under test
GithubUrl == <<"github.com", "pulls">>

ShopUrl == <<"shop">>

InitNav ==
  \E visible \in {{}, {"body"}} :
    InitSite(ReadmeDoc, MissingFile, ProcEnv(Undefined, Undefined, Undefined, Undefined),
             <<>>, [visible |-> visible, text |-> JsNull, url |-> <<"blank">>])

NavNext ==
  \/ ImportModule
  \/ \E path \in {<<"login">>, <<"about">>} :
       Invoke("navigate", "base", [baseUrl |-> ShopUrl, path |-> path], <<>>)
  \/ \E url \in {GithubUrl, ShopUrl}, timeout \in {0, 20000} :
       Invoke("navigateToUrl", "fixture", [url |-> url, options |-> [timeout |-> timeout]], <<>>)
  \/ Invoke("exportLoop", "test", GithubUrl, [attempt |-> 0])
  \/ Invoke("loadLoop", "test", GithubUrl, [navAttempt |-> 0])
  \/ Settle
  \/ SiteChange("body")

SpecNav == InitNav /\ [][NavNext]_vars

\* ------------------------------------------------ pull requests to CSV text
\* Text is a sequence of characters; a fixed phrase of the code is one
\* character of the model.  A row of the page gives the trimmed text of its
\* title link, of its author link and its date, each empty when the element
\* is missing.  The date is the formatted datetime attribute, or the text of
\* the date element when it has no such attribute: any text, a quote included.
RowTitles == {<<>>, <<"a">>, <<"\"">>}

RowAuthors == {<<>>, <<"b">>}

RowDates == {<<>>, <<"d">>, <<"\"">>}

PageRows == [title : RowTitles, author : RowAuthors, date : RowDates]

RECURSIVE RowLists(_)
RowLists(n) ==
  IF n = 0 THEN {<<>>}
  ELSE RowLists(n - 1) \cup {Append(l, r) : l \in {x \in RowLists(n - 1) : Len(x) = n - 1}, r \in PageRows}

\* s.replace(/"/g, '""')
RECURSIVE EscapeQuotes(_)
EscapeQuotes(str) ==
  IF str = <<>> THEN <<>>
  ELSE (IF Head(str) = "\"" THEN <<"\"", "\"">> ELSE <<Head(str)>>) \o EscapeQuotes(Tail(str))

\* extractPullRequests: rows in page order; a row without title or author is
\* left out; name and author have their quotes doubled, the date has not
RECURSIVE extractPullRequests(_)
extractPullRequests(rows) ==
  IF rows = <<>> THEN <<>>
  ELSE (IF Head(rows).title # <<>> /\ Head(rows).author # <<>>
          THEN << [name |-> EscapeQuotes(Head(rows).title),
                   createdDate |-> OrElse(Head(rows).date, <<"Unknown Date">>),
                   author |-> EscapeQuotes(Head(rows).author)] >>
          ELSE <<>>)
       \o extractPullRequests(Tail(rows))

\* array.join(sep)
RECURSIVE Join(_, _)
Join(items, sep) ==
  IF items = <<>> THEN <<>>
  ELSE IF Len(items) = 1 THEN items[1]
  ELSE items[1] \o sep \o Join(Tail(items), sep)

\* `"${field}"`
Quoted(field) == <<"\"">> \o field \o <<"\"">>

\* generateCSV: [headers, ...rows].join('\n')
generateCSV(pullRequests) ==
  Join(<< <<"PR Name", ",", "Created Date", ",", "Author">> >>
       \o [i \in DOMAIN pullRequests |->
             Quoted(pullRequests[i].name) \o <<",">> \o Quoted(pullRequests[i].createdDate)
             \o <<",">> \o Quoted(pullRequests[i].author)],
       <<"\n">>)

\* exportPullRequestsToCSV: the text written, csvHeader + csvContent
exportPullRequestsToCSV(pullRequests) ==
  <<"PR Name", ",", "Author", ",", "Created Date", "\n">>
  \o Join([i \in DOMAIN pullRequests |->
             Quoted(pullRequests[i].name) \o <<",">> \o Quoted(pullRequests[i].author)
             \o <<",">> \o Quoted(pullRequests[i].createdDate)],
          <<"\n">>)

\* a step of the export scenario ended with a value
Stepped(fn, arg, value) ==
  /\ ScenarioRuns
  /\ frame = NoFrame
  /\ ended' = [n |-> ended.n + 1, fn |-> fn, variant |-> "test", arg |-> arg,
               threw |-> FALSE, value |-> value]
  /\ UNCHANGED <<site, frame, log>>
  /\ UNCHANGED <<configVars, basePageVars, harnessVars>>

\* const pullRequests = await extractPullRequests(page, testLogger)
ExtractPullRequests ==
  /\ ended.fn = "none"
  /\ Stepped("extractPullRequests", site.rows, extractPullRequests(site.rows))

\* expect(pullRequests.length).toBeGreaterThan(0), then the CSV text is made
\* by generateCSV in the first export scenario of the file
GenerateCSV ==
  /\ ended.fn = "extractPullRequests"
  /\ Len(ended.value) > 0
  /\ Stepped("generateCSV", ended.value, generateCSV(ended.value))

\* and by exportPullRequestsToCSV in the second
ExportPullRequestsToCSV ==
  /\ ended.fn = "extractPullRequests"
  /\ Len(ended.value) > 0
  /\ Stepped("exportPullRequestsToCSV", ended.value, exportPullRequestsToCSV(ended.value))

InitCsv ==
  \E rows \in RowLists(MaxPRs) :
    InitSite(ReadmeDoc, MissingFile, ProcEnv(Undefined, Undefined, Undefined, Undefined),
             <<>>, [visible |-> {}, text |-> JsNull, url |-> GithubUrl, rows |-> rows])

CsvNext ==
  \/ ImportModule
  \/ ExtractPullRequests
  \/ GenerateCSV
  \/ ExportPullRequestsToCSV

SpecCsv == InitCsv /\ [][CsvNext]_vars

\* ------------------------------------------- the CSV files of parallel runs
\* the three export scenarios of the test files
ExportScenarios == {"test-outputs", "test-results", "fixed"}

\* new Date().toISOString().replace(/[:.]/g, '-'): one text per millisecond
Timestamp(now) == now

\* path.join(outputDir, `appwrite-pull-requests-${timestamp}.csv`) of the two
\* scenarios of test-case-4, path.join('test-results',
\* 'github-pull-requests.csv') of the scenario of test-case-1
CsvFilePath(scenario, now) ==
  IF scenario = "fixed" THEN <<"test-results", "github-pull-requests">>
  ELSE <<scenario, "appwrite-pull-requests", Timestamp(now)>>

\* the harness starts the export scenario in another worker
StartRun(scenario) ==
  /\ ScenarioRuns
  /\ Len(runs) < MaxWorkers
  /\ runs' = Append(runs, [scenario |-> scenario, at |-> "ready", path |-> <<>>])
  /\ UNCHANGED <<clock, files, emitted, errors>>
  /\ UNCHANGED <<configVars, basePageVars, viewVars>>

\* const csvFilePath = ...
NameFile(w) ==
  /\ runs[w].at = "ready"
  /\ runs' = [runs EXCEPT ![w].at = "named", ![w].path = CsvFilePath(runs[w].scenario, clock)]
  /\ UNCHANGED <<clock, files, emitted, errors>>
  /\ UNCHANGED <<configVars, basePageVars, viewVars>>

\* fs.writeFileSync(csvFilePath, csvContent): the file holds what the last
\* writer of the path wrote
WriteFile(w) ==
  /\ runs[w].at = "named"
  /\ runs' = [runs EXCEPT ![w].at = "written"]
  /\ files' = {f \in files : f.path # runs[w].path} \cup {[path |-> runs[w].path, by |-> w]}
  /\ UNCHANGED <<clock, emitted, errors>>
  /\ UNCHANGED <<configVars, basePageVars, viewVars>>

\* a millisecond passes
Tick ==
  /\ clock < MaxClock
  /\ clock' = clock + 1
  /\ UNCHANGED <<runs, files, emitted, errors>>
  /\ UNCHANGED <<configVars, basePageVars, viewVars>>

InitExport ==
  InitSite(ReadmeDoc, MissingFile, ProcEnv(Undefined, Undefined, Undefined, Undefined),
           <<>>, BlankSite)

ExportNext ==
  \/ ImportModule
  \/ \E scenario \in ExportScenarios : StartRun(scenario)
  \/ \E w \in DOMAIN runs : NameFile(w)
  \/ \E w \in DOMAIN runs : WriteFile(w)
  \/ Tick

SpecExport == InitExport /\ [][ExportNext]_vars

\* ------------------------------------------------------- link validation
\* what page.request.get(link.url) does for a link: a response with a
\* status, or an exception
Responses ==
  {[throws |-> FALSE, status |-> status] : status \in {199, 200, 399, 400}}
  \cup {[throws |-> TRUE, status |-> 0]}

RECURSIVE ListsOf(_, _)
ListsOf(items, n) ==
  IF n = 0 THEN {<<>>}
  ELSE ListsOf(items, n - 1)
       \cup {Append(l, r) : l \in {x \in ListsOf(items, n - 1) : Len(x) = n - 1}, r \in items}

\* return (status >= 200 && status < 400)
isValidStatusCode(status) == status >= 200 /\ status < 400

\* for (const link of links) { try { get, push the status and its validity }
\* catch { push status 0, isValid false } }; the i-th link has url i
RECURSIVE testLinks(_, _)
testLinks(served, i) ==
  IF i > Len(served) THEN <<>>
  ELSE << IF served[i].throws
            THEN [url |-> i, status |-> 0, isValid |-> FALSE]
            ELSE [url |-> i, status |-> served[i].status,
                  isValid |-> isValidStatusCode(served[i].status)] >>
       \o testLinks(served, i + 1)

\* testResults.filter(result => wanted(result)).length
CountValid(results) == Cardinality({i \in DOMAIN results : results[i].isValid})

\* 'should validate all links return valid status codes', first version:
\* expect(invalidLinks).toHaveLength(0)
ValidateAllLinks ==
  /\ ended.fn = "none"
  /\ Stepped("validateAllLinks", site.served,
             [results |-> testLinks(site.served, 1),
              passed |-> CountValid(testLinks(site.served, 1)) = Len(site.served)])

\* second version: successRate = valid / total * 100;
\* expect(successRate).toBeGreaterThanOrEqual(80); 0 / 0 is NaN and fails
ValidateMostLinks ==
  /\ ended.fn = "none"
  /\ Stepped("validateMostLinks", site.served,
             [results |-> testLinks(site.served, 1),
              passed |-> /\ Len(site.served) > 0
                         /\ CountValid(testLinks(site.served, 1)) * 100 >= 80 * Len(site.served)])

InitLinks ==
  \E served \in ListsOf(Responses, MaxLinks) :
    InitSite(ReadmeDoc, MissingFile, ProcEnv(Undefined, Undefined, Undefined, Undefined),
             <<>>, [visible |-> {}, text |-> JsNull, url |-> ShopUrl, served |-> served])

LinksNext ==
  \/ ImportModule
  \/ ValidateAllLinks
  \/ ValidateMostLinks

SpecLinks == InitLinks /\ [][LinksNext]_vars

\* ------------------------------------------- helper functions on a page
\* the environment's baseUrl, and the hrefs an anchor can have: empty, '#',
\* 'javascript:void(0)', a path, and the absolute address of that path
ShopBaseUrl == <<"http:", "//shop">>

Hrefs == {<<>>, <<"#">>, <<"javascript:void(0)">>, <<"/a">>, ShopBaseUrl \o <<"/a">>}

InitHelpers ==
  \E anchors \in ListsOf(Hrefs, MaxAnchors) :
    InitSite(ReadmeDoc, MissingFile, ProcEnv(Undefined, Undefined, Undefined, Undefined),
             <<>>, [visible |-> {}, text |-> JsNull, url |-> ShopUrl, anchors |-> anchors])

HelpersNext ==
  \/ ImportModule
  \/ Invoke("extractAllLinks", "locators", ShopBaseUrl,
            [links |-> <<>>, i |-> 0, href |-> <<>>, linkData |-> <<>>])
  \/ Invoke("waitForAsyncErrors", "helper", 2000, <<>>)
  \/ Invoke("navigate", "base", [baseUrl |-> ShopUrl, path |-> <<"about">>], <<>>)
  \/ Settle

SpecHelpers == InitHelpers /\ [][HelpersNext]_vars

\* -------------------------------------------- PageHelper on selector lists
MaxSelectors == 3

HelperKeys == {"#a", "#b"}

InitPageHelper ==
  \E visible \in SUBSET HelperKeys :
    InitSite(ReadmeDoc, MissingFile, ProcEnv(Undefined, Undefined, Undefined, Undefined),
             <<>>, [visible |-> visible, text |-> JsNull, url |-> ShopUrl])

PageHelperNext ==
  \/ ImportModule
  \/ \E selectors \in ListsOf(HelperKeys, MaxSelectors) :
       \/ Invoke("clickElement", "helper", [selectors |-> selectors], <<>>)
       \/ Invoke("waitForElement", "helper", [selectors |-> selectors], <<>>)
       \/ \E clear \in BOOLEAN :
            Invoke("fillInput", "helper",
                   [selectors |-> selectors, value |-> <<"v">>, clear |-> clear], <<>>)
  \/ Settle
  \/ \E key \in HelperKeys : SiteChange(key)

SpecPageHelper == InitPageHelper /\ [][PageHelperNext]_vars

\* ---------------------------------------------------- claims on page views
\* the method that ended last, and whether it ended at all
Ended_Is(fn) == ended.n > 0 /\ frame = NoFrame /\ ended.fn = fn

\* the logged framework call awaited at position pc resolved with TRUE
Seen(pc) == \E i \in DOMAIN log : log[i].at = pc /\ log[i].ok /\ log[i].value

\* C11: isVisible(selector) never throws: for every selector and page state
\* it returns a boolean, false when no matching element became visible
\* before its timeout or the wait failed for another reason, true only when
\* the wait for visibility succeeded.
C11_IsVisibleNeverThrows ==
  Ended_Is("isVisible") =>
    /\ ~ended.threw
    /\ ended.value \in BOOLEAN
    /\ Len(log) = 1
    /\ log[1].fn = "waitForSelector" /\ log[1].selector = ended.arg
    /\ log[1].timeout = 1000
    /\ ended.value <=> log[1].ok

\* the wait failed although the element is visible: the page went away
C11_Witness ==
  /\ Ended_Is("isVisible")
  /\ log[1].why = "closed"
  /\ ended.arg \in site.visible
  /\ ended.value = FALSE

\* leading and trailing spaces removed
RECURSIVE Trim(_)
Trim(s) ==
  IF s = <<>> THEN s
  ELSE IF Head(s) = " " THEN Trim(Tail(s))
  ELSE IF s[Len(s)] = " " THEN Trim(SubSeq(s, 1, Len(s) - 1))
  ELSE s

\* getText waited for the element with waitForElement, and read the text
\* only after that wait succeeded
GetTextWaitedFirst ==
  /\ Len(log) >= 1
  /\ log[1].fn = "waitForSelector" /\ log[1].selector = ended.arg
  /\ Len(log) <= 2
  /\ Len(log) = 2 => (log[1].ok /\ log[2].fn = "textContent" /\ log[2].selector = ended.arg)
  /\ ended.threw <=> ~log[Len(log)].ok

\* C12 as stated: getText(selector) waits for the element to be visible and
\* then returns its text content with leading and trailing whitespace
\* removed, or the empty string when the element has no text content.
C12_GetTextTrimmed ==
  Ended_Is("getText") =>
    /\ GetTextWaitedFirst
    /\ ~ended.threw =>
         ended.value = IF log[2].value.t = "null" THEN JsStr(<<>>)
                       ELSE JsStr(Trim(log[2].value.s))

\* C12 amended: getText(selector) waits for the element to be visible and
\* then returns its text content unchanged, surrounding whitespace kept, or
\* the empty string when the text content is null or empty.
C12_GetTextAsIs ==
  Ended_Is("getText") =>
    /\ GetTextWaitedFirst
    /\ ~ended.threw =>
         /\ Len(log) = 2
         /\ ended.value.t = "string"
         /\ ended.value = IF log[2].value.t = "null" THEN JsStr(<<>>) ELSE log[2].value

C12_Witness ==
  /\ Ended_Is("getText")
  /\ ~ended.threw
  /\ log[2].value = JsStr(<<" ", "a">>)
  /\ ended.value = JsStr(<<" ", "a">>)

\* C17 as stated: the home view's hasEssentialElements() is the AND of
\* heading, navigation and main-content visibility: true if and only if all
\* three were found visible.
C17_HomeEssentialIsAnd ==
  (Ended_Is("HomePage.hasEssentialElements") /\ ~ended.threw) =>
    (ended.value <=> (Seen("hasHeading") /\ Seen("hasNavigation") /\ Seen("hasMainContent")))

\* C17 amended: the home-page that probes with this.isVisible returns the
\* AND of heading, navigation and main-content visibility and never throws;
\* the home-page built on super.hasEssentialElements returns navigation AND
\* (((heading OR body) AND main content) OR (body AND a visible element in
\* the body)), so it can be true with no visible heading or main content.
C17_HomeEssentialByVariant ==
  Ended_Is("HomePage.hasEssentialElements") =>
    IF ended.variant = "simple"
      THEN /\ ~ended.threw
           /\ Len(log) = 3
           /\ ended.value <=>
                (Seen("hasHeading") /\ Seen("hasNavigation") /\ Seen("hasMainContent"))
      ELSE ~ended.threw =>
             (ended.value <=>
                /\ Seen("hasNavigation")
                /\ \/ (Seen("hasHeading") \/ Seen("hasHeadingBody")) /\ Seen("hasMainContent")
                   \/ Seen("bodyHasContent") /\ Seen("bodyHasContentChild"))

\* no heading and no main content found, and the answer is true
C17_Witness ==
  /\ Ended_Is("HomePage.hasEssentialElements")
  /\ ended.variant = "super"
  /\ ~ended.threw
  /\ ~Seen("hasHeading") /\ ~Seen("hasMainContent")
  /\ ended.value

\* ------------------------------------------------- claims on the login view
\* the three field probes of hasFormElements all answered visible
AllThreeSeen == Seen("hasUsername") /\ Seen("hasPassword") /\ Seen("hasButton")

\* C14 as stated: hasFormElements() returns true only when the username
\* field, the password field and the submit button are all visible, and
\* false if any one of the three is not visible.
C14_FormElementsAllVisible ==
  (Ended_Is("LoginPage.hasFormElements") /\ ~ended.threw) =>
    (ended.value <=> AllThreeSeen)

\* C14 amended: the login-page that probes with this.isVisible returns the
\* AND of username, password and submit-button visibility and never throws;
\* the login-page that probes with locators returns that AND, OR (a form is
\* visible AND an input of type password is visible), so it can be true with
\* none of the three found.
C14_FormElementsByVariant ==
  Ended_Is("LoginPage.hasFormElements") =>
    IF ended.variant = "simple"
      THEN /\ ~ended.threw
           /\ Len(log) = 3
           /\ ended.value <=> AllThreeSeen
      ELSE ~ended.threw =>
             (ended.value <=>
                \/ AllThreeSeen
                \/ Seen("hasAnyLoginForm") /\ Seen("hasAnyLoginFormPassword"))

\* the username field was not visible and the answer is true
C14_Witness ==
  /\ Ended_Is("LoginPage.hasFormElements")
  /\ ended.variant = "anyForm"
  /\ ~ended.threw
  /\ ~Seen("hasUsername")
  /\ ended.value

\* the statement of login() that works on the element selector
StepOf(selector) == CHOOSE k \in DOMAIN LoginSteps : LoginSteps[k].selector = selector

Interactions == {"fill", "click"}

\* C15: login(username, password) interacts in the order fill username, fill
\* password, click submit, and tolerates missing fields: an absent field or
\* button is skipped, the remaining steps still run, and login() does not
\* fail because of the absent element.
C15_LoginOrderedAndTolerant ==
  Ended_Is("LoginPage.login") =>
    /\ \A i, j \in DOMAIN log :
         (i < j /\ log[i].fn \in Interactions /\ log[j].fn \in Interactions) =>
           StepOf(log[i].selector) < StepOf(log[j].selector)
    /\ (\A i \in DOMAIN log : log[i].why # "closed") =>
         /\ ~ended.threw
         /\ \A k \in DOMAIN LoginSteps :
              \E i \in DOMAIN log : log[i].selector = LoginSteps[k].selector

\* C16: isLoginSuccessful() never throws and returns within the 5-second
\* race of the URL-pattern match with the appearance of the error element;
\* it returns true exactly when the address read after that wait does not
\* contain "login", however the race ended.
C16_LoginSuccessfulNeverThrows ==
  Ended_Is("LoginPage.isLoginSuccessful") =>
    /\ ~ended.threw
    /\ Len(log) = 1
    /\ log[1].fn = "race" /\ log[1].timeout = 5000
    /\ ended.value <=> ~Includes(log[1].value, "login")

\* --------------------------------------------------- claims on navigation
\* the logged calls that are navigations, and the navigations that arrived
\* on an address holding the requested hostname
Gotos == {i \in DOMAIN log : log[i].fn = "goto"}

Arrived(i) ==
  log[i].fn = "goto" /\ log[i].ok /\ Includes(log[i].value, Hostname(log[i].selector))

Pauses == SelectSeq(log, LAMBDA e : e.fn = "waitForTimeout")

\* what navigateToUrl threw at the logged navigation i
ErrorOf(i) == IF log[i].ok THEN "Navigation failed" ELSE log[i].why

\* C18: the export scenario's retry loop calls navigateToUrl at most 3
\* times and stops at the first success; it waits 2000 ms after the first
\* failure and 4000 ms after the second; the third failure is rethrown
\* without waiting.
C18_ExportRetriesAtMostThrice ==
  Ended_Is("exportLoop") =>
    /\ Cardinality(Gotos) <= 3
    /\ \A i \in Gotos : Arrived(i) => (i = Len(log) /\ ~ended.threw)
    /\ ~ended.threw => Arrived(Len(log))
    /\ \A i \in DOMAIN log :
         log[i].fn = "waitForTimeout" => (i > 1 /\ log[i - 1].fn = "goto" /\ ~Arrived(i - 1))
    /\ \A i \in Gotos : i < Len(log) => log[i + 1].fn = "waitForTimeout"
    /\ Len(Pauses) <= 2
    /\ \A k \in DOMAIN Pauses : Pauses[k].timeout = <<2000, 4000>>[k]
    /\ (Cardinality(Gotos) = 3 /\ ~Arrived(Len(log))) =>
         /\ log[Len(log)].fn = "goto"
         /\ ended.threw
         /\ ended.value = ErrorOf(Len(log))

\* three navigations failed, two pauses between them, the third error thrown
C18_Witness ==
  /\ Ended_Is("exportLoop")
  /\ Cardinality(Gotos) = 3
  /\ Len(Pauses) = 2
  /\ ended.threw

\* C19: the rate-limiting scenario's retry loop ends after at most 3
\* navigation attempts whatever the outcomes are; an attempt whose navigation
\* succeeds and whose body wait reports not-loaded counts against the cap.
C19_LoadRetriesAtMostThrice ==
  (frame.fn = "loadLoop" \/ Ended_Is("loadLoop")) => Cardinality(Gotos) <= maxNavAttempts

\* ------------------------------------------------------ claims on the CSV
\* the lines of a text: what lies between its line feeds
RECURSIVE SplitLines(_, _)
SplitLines(text, line) ==
  IF text = <<>> THEN <<line>>
  ELSE IF Head(text) = "\n" THEN <<line>> \o SplitLines(Tail(text), <<>>)
  ELSE SplitLines(Tail(text), Append(line, Head(text)))

\* the CSV text holds the header `PR Name,Created Date,Author` and then one
\* row per pull request, in order, of the quoted name, created date, author
HeaderAndRows(csv, pullRequests) ==
  /\ Len(csv) = Len(pullRequests) + 1
  /\ csv[1] = <<"PR Name", ",", "Created Date", ",", "Author">>
  /\ \A i \in DOMAIN pullRequests :
       csv[i + 1] = <<"\"">> \o pullRequests[i].name \o <<"\"", ",", "\"">>
                    \o pullRequests[i].createdDate \o <<"\"", ",", "\"">>
                    \o pullRequests[i].author \o <<"\"">>

\* C20: the CSV produced for a list of n pull requests is the header row
\* `PR Name,Created Date,Author` followed by exactly n rows, one per pull
\* request in extraction order, each of three double-quoted fields in the
\* column order of the header (name, created date, author).
C20_CsvHeaderAndRows ==
  (ended.fn \in {"generateCSV", "exportPullRequestsToCSV"}) =>
    HeaderAndRows(SplitLines(ended.value, <<>>), ended.arg)

\* the fields of one CSV line by the rules of quoted fields: a field stands
\* between double quotes, a doubled quote inside it is one quote, a comma
\* follows the closing quote of every field but the last
RECURSIVE ParseQuoted(_, _, _, _)
ParseQuoted(line, inField, field, fields) ==
  IF inField
    THEN IF line = <<>> THEN [ok |-> FALSE, fields |-> <<>>]
         ELSE IF Head(line) # "\"" THEN
           ParseQuoted(Tail(line), TRUE, Append(field, Head(line)), fields)
         ELSE IF Len(line) >= 2 /\ line[2] = "\"" THEN
           ParseQuoted(Tail(Tail(line)), TRUE, Append(field, "\""), fields)
         ELSE IF Len(line) = 1 THEN [ok |-> TRUE, fields |-> Append(fields, field)]
         ELSE IF line[2] = "," THEN
           ParseQuoted(Tail(Tail(line)), FALSE, <<>>, Append(fields, field))
         ELSE [ok |-> FALSE, fields |-> <<>>]
    ELSE IF line # <<>> /\ Head(line) = "\""
           THEN ParseQuoted(Tail(line), TRUE, <<>>, fields)
           ELSE [ok |-> FALSE, fields |-> <<>>]

\* the rows of the page that extraction keeps, as the page shows them
KeptRows == SelectSeq(site.rows, LAMBDA r : r.title # <<>> /\ r.author # <<>>)

\* C21: CSV round trip: for every pull request whose title, author or
\* created date may hold double quotes, the emitted row doubles each quote,
\* and parsing the emitted CSV by the rules of quoted fields recovers the
\* original title, created date and author.
C21_CsvRoundTrip ==
  ended.fn = "generateCSV" =>
    \A i \in DOMAIN KeptRows :
      ParseQuoted(SplitLines(ended.value, <<>>)[i + 1], FALSE, <<>>, <<>>) =
        [ok |-> TRUE,
         fields |-> <<KeptRows[i].title,
                      OrElse(KeptRows[i].date, <<"Unknown Date">>),
                      KeptRows[i].author>>]

\* C22: any two runs of the pull-request export scenario, runs the harness
\* executes in parallel included, write distinct CSV paths, so that no run
\* overwrites the CSV file of another run.
C22_DistinctCsvPaths ==
  /\ \A w1, w2 \in DOMAIN runs :
       (w1 # w2 /\ runs[w1].at # "ready" /\ runs[w2].at # "ready") =>
         runs[w1].path # runs[w2].path
  /\ \A w \in DOMAIN runs :
       runs[w].at = "written" => [path |-> runs[w].path, by |-> w] \in files

\* ------------------------------------------------ claims on link validation
\* C23: every extracted link gives exactly one result, in extraction order;
\* a link is valid exactly when its status satisfies 200 <= status < 400; a
\* link whose request throws is recorded with status 0 and is invalid, never
\* dropped; and the scenario 'should validate all links return valid status
\* codes' passes only if no link gave an invalid result.
C23_LinkResults ==
  (ended.fn \in {"validateAllLinks", "validateMostLinks"}) =>
    /\ Len(ended.value.results) = Len(ended.arg)
    /\ \A i \in DOMAIN ended.arg :
         /\ ended.value.results[i].url = i
         /\ ended.value.results[i].isValid <=>
              (~ended.arg[i].throws /\ ended.arg[i].status >= 200 /\ ended.arg[i].status < 400)
         /\ ended.arg[i].throws => ended.value.results[i].status = 0
         /\ ~ended.arg[i].throws => ended.value.results[i].status = ended.arg[i].status
    /\ ended.value.passed => \A i \in DOMAIN ended.arg : ended.value.results[i].isValid

\* ------------------------------------------ claims on verifySuccessfulLogin
\* the signals that are true, a signal whose probe threw being false: the
\* address left login.html; the address holds dashboard, home or profile;
\* welcome text was found; the password field was seen not visible; a
\* navigation element was found
SignalsTrue ==
  Indicator(~Includes(ended.arg, "login.html"))
  + Indicator(Includes(ended.arg, "dashboard") \/ Includes(ended.arg, "home")
              \/ Includes(ended.arg, "profile"))
  + Indicator(log[1].ok /\ log[1].value > 0)
  + Indicator(log[2].ok /\ ~log[2].value)
  + Indicator(log[3].ok /\ log[3].value > 0)

\* C24: verifySuccessfulLogin judges a login successful exactly when at
\* least 2 of its 5 signals are true, where a signal whose evaluation throws
\* counts as false and does not stop the evaluation of the signals after it.
C24_TwoOfFiveSignals ==
  Ended_Is("verifySuccessfulLogin") =>
    /\ ~ended.threw
    /\ Len(log) = 3
    /\ ended.value <=> SignalsTrue >= 2

\* --------------------------------------------- claims on helper functions
\* a framework call whose failure may be dropped: the network-idle wait of
\* waitForAsyncErrors, and the visibility probes
BestEffort(e) ==
  \/ e.fn = "waitForLoadState" /\ ended.fn = "waitForAsyncErrors"
  \/ e.fn = "locator.isVisible"
  \/ e.fn = "waitForSelector" /\ e.timeout = 1000

RetryLoops == {"exportLoop", "loadLoop"}

\* C25: no error is silently swallowed except by the best-effort
\* network-idle wait and the boolean visibility probes: every failure of a
\* navigation, element wait, interaction or HTTP step inside a page
\* operation or a scenario's retry loop reaches the scenario as a failure or
\* as a recorded failed result, and waitForAsyncErrors completes normally
\* when its network-idle wait times out.
C25_NoErrorSwallowed ==
  (ended.n > 0 /\ frame = NoFrame /\ log # <<>>) =>
    /\ (ended.fn \notin RetryLoops
        /\ \E i \in DOMAIN log : ~log[i].ok /\ ~BestEffort(log[i])) => ended.threw
    /\ (ended.fn \in RetryLoops /\ ~log[Len(log)].ok) => (ended.threw \/ ~ended.value)
    /\ (ended.fn = "waitForAsyncErrors" /\ Len(log) = 2) => ~ended.threw

\* the anchors that were read without a failure: the positions in the log
\* of their href, and among them those with an href that is a link
ReadAnchors ==
  {i \in DOMAIN log : /\ log[i].at = "href" /\ log[i].ok
                      /\ i + 1 \in DOMAIN log /\ log[i + 1].at = "text" /\ log[i + 1].ok}

LinkAnchors ==
  {i \in ReadAnchors : log[i].value \notin {<<>>, <<"#">>, <<"javascript:void(0)">>}}

\* the first anchor of the page, among those read, with this absolute URL
FirstWith(url) ==
  CHOOSE i \in LinkAnchors :
    /\ absoluteUrl(log[i].value, ended.arg) = url
    /\ \A j \in LinkAnchors : absoluteUrl(log[j].value, ended.arg) = url => i <= j

\* C28: extractAllLinks, the version built on locators, returns a list in
\* which no two entries have the same absolute URL, keeping for each URL its
\* first occurrence and the order of the page; it never includes an anchor
\* whose href is '#' or 'javascript:void(0)'; and an anchor whose processing
\* throws is skipped without effect on the other anchors.
C28_UniqueLinksInPageOrder ==
  (Ended_Is("extractAllLinks") /\ log[1].ok) =>
    /\ ~ended.threw
    /\ Cardinality({i \in DOMAIN log : log[i].at = "href"}) = Len(log[1].value)
    /\ \A k, l \in DOMAIN ended.value :
         k # l => ended.value[k].url # ended.value[l].url
    /\ {ended.value[k].url : k \in DOMAIN ended.value}
         = {absoluteUrl(log[i].value, ended.arg) : i \in LinkAnchors}
    /\ \A k, l \in DOMAIN ended.value :
         k < l => FirstWith(ended.value[k].url) < FirstWith(ended.value[l].url)
    /\ \A k \in DOMAIN ended.value :
         ended.value[k].text
           = OrElse(log[FirstWith(ended.value[k].url) + 1].value,
                    log[FirstWith(ended.value[k].url)].value)

\* an anchor threw and was skipped, a later anchor repeated a URL already
\* kept, and the list holds that URL once
C28_Witness ==
  /\ Ended_Is("extractAllLinks")
  /\ \E i \in DOMAIN log : ~log[i].ok
  /\ Cardinality(LinkAnchors) > Len(ended.value)
  /\ Len(ended.value) >= 1


\* ------------------------------------------- writes through a returned copy
\* { ...o } is a new object holding o's own properties: the values of the
\* properties are the very objects o holds.  A write whose path from the copy
\* has one step changes the copy; a longer path goes through one of those
\* values and changes the object the manager holds.
ReachesOriginal(path) == Len(path) > 1

\* where the object each accessor copies sits in this.config
CopyRoot(op) ==
  CASE op = "getConfig" -> <<>>
    [] op = "getAllEnvironments" -> <<"environments">>
    [] op = "getCredentials" -> <<"credentials", "demo">>

SetTo(path) == [kind |-> "set", path |-> path]

Delete(path) == [kind |-> "delete", path |-> path]

\* the value a write assigns to the property its path ends at
Assigned(property) ==
  CASE property = "baseUrl" -> JsStr(<<"y", ":", "/", "/", "y">>)
    [] property = "basePath" -> JsStr(<<"/", "p">>)
    [] property = "name" -> "Renamed"
    [] property = "username" -> "other"
    [] OTHER -> GoodEntry

\* what a caller can do to an "environments" object it holds: add an entry,
\* remove one, change baseUrl, basePath or name of one
EnvironmentWrites(environments) ==
  {SetTo(<<name>>) : name \in EnvNames \ Range(environments.keys)}
  \cup {Delete(<<name>>) : name \in Range(environments.keys)}
  \cup {SetTo(<<name, property>>) :
          name \in Range(environments.keys), property \in {"baseUrl", "basePath", "name"}}

Under(prefix, writes) == {[w EXCEPT !.path = prefix \o @] : w \in writes}

\* the writes a caller can make through the value an accessor returned
WritesThrough(op, held) ==
  CASE op = "getConfig" ->
         Under(<<"environments">>, EnvironmentWrites(held.environments))
         \cup {SetTo(<<"credentials", "demo", "username">>),
               Delete(<<"credentials">>)}
    [] op = "getAllEnvironments" -> EnvironmentWrites(held)
    [] op = "getCredentials" -> {SetTo(<<"username">>)}

WithEnvironment(environments, name, entry) ==
  JsObject(IF name \in Range(environments.keys) THEN environments.keys
           ELSE Append(environments.keys, name),
           [k \in Range(environments.keys) \cup {name} |->
              IF k = name THEN entry ELSE environments.get[k]])

WithoutEnvironment(environments, name) ==
  JsObject(SelectSeq(environments.keys, LAMBDA k : k # name),
           [k \in Range(environments.keys) \ {name} |-> environments.get[k]])

\* this.config after a write at a path of two or three steps from its root
Written(config, write) ==
  LET path == write.path
      value == Assigned(path[Len(path)])
  IN IF path[1] = "environments"
       THEN [config EXCEPT !.environments =
               IF Len(path) = 3
                 THEN WithEnvironment(@, path[2], [@.get[path[2]] EXCEPT ![path[3]] = value])
               ELSE IF write.kind = "delete" THEN WithoutEnvironment(@, path[2])
               ELSE WithEnvironment(@, path[2], value)]
     ELSE [config EXCEPT !.credentials =
             JsObject(@.keys, [@.get EXCEPT ![path[2]][path[3]] = value])]

\* the writes open to the caller: those through the object the last call
\* returned, when that call was one of the three accessors that copy
Held ==
  IF ret.op \in {"getConfig", "getAllEnvironments", "getCredentials"} /\ ~ret.threw
    THEN WritesThrough(ret.op, ret.value) ELSE {}

\* a scenario step writes through the object the last accessor returned
WriteThroughCopy(write) ==
  /\ moduleState = "loaded"
  /\ steps < MaxSteps
  /\ write \in Held
  /\ instance' = IF ReachesOriginal(write.path)
                   THEN [instance EXCEPT !.config = Written(@, [write EXCEPT !.path = CopyRoot(ret.op) \o @])]
                 ELSE instance
  /\ ret' = [op |-> "written", threw |-> FALSE, through |-> ret.op, write |-> write,
             before |-> instance]
  /\ steps' = steps + 1
  /\ UNCHANGED <<fsDefault, fsSpecific, procEnv, argv, moduleState, thrown, nextId, console>>
  /\ UNCHANGED pageVars

InitCopies ==
  \E doc \in DocsOver({GoodEntry}, MaxEnvs) :
    InitWith(doc, MissingFile, ProcEnv(Undefined, Undefined, Undefined, Undefined), <<>>)

CopiesNext ==
  \/ ImportModule
  \/ GetCurrentEnvironment
  \/ GetFullBaseUrl
  \/ GetConfig
  \/ GetAllEnvironments
  \/ \E type \in {"demo", "admin"} : GetCredentials(type)
  \/ \E write \in Held : WriteThroughCopy(write)

SpecCopies == InitCopies /\ [][CopiesNext]_vars

\* C26: after a write through an object getConfig() or getAllEnvironments()
\* returned (an environment added or removed, baseUrl, basePath or name of an
\* environment changed, a credential changed), getCurrentEnvironment,
\* getFullBaseUrl, getConfig, getAllEnvironments and getCredentials answer as
\* they did before the write
C26_CopiesPreventModification ==
  (ret.op = "written" /\ ret.through \in {"getConfig", "getAllEnvironments"}) =>
    /\ getCurrentEnvironment(instance) = getCurrentEnvironment(ret.before)
    /\ getFullBaseUrl(instance) = getFullBaseUrl(ret.before)
    /\ instance.config = ret.before.config
    /\ instance.config.environments = ret.before.config.environments
    /\ instance.config.credentials = ret.before.config.credentials


\* the selectors the method attempted, in the order of the attempts
Tried ==
  LET first == IF ended.fn = "fillInput" THEN FillFirst(ended.arg.clear)
               ELSE IF ended.fn = "clickElement" THEN "click" ELSE "waitForSelector"
      starts == SelectSeq(log, LAMBDA e : e.at = first)
  IN [k \in DOMAIN starts |-> starts[k].selector]

\* the last attempt succeeded: its last framework call resolved, and for
\* fillInput the field holds the value
LastSucceeded ==
  /\ log # <<>>
  /\ log[Len(log)].ok
  /\ ended.fn = "fillInput" =>
       (log[Len(log)].at = "inputValue" /\ log[Len(log)].value = ended.arg.value)

\* C27: clickElement, fillInput and waitForElement on a list of selectors
\* attempt the selectors in list order, return at the first attempt that
\* succeeds, and throw 'All selectors failed' exactly when the attempt failed
\* for every selector of the list, whatever the list, repeated selectors
\* included (stated for the lists that hold a selector: on the empty list the
\* loop body never runs and the method returns)
C27_SelectorListsInOrder ==
  ((Ended_Is("clickElement") \/ Ended_Is("fillInput") \/ Ended_Is("waitForElement"))
     /\ ended.arg.selectors # <<>>) =>
    /\ Len(Tried) <= Len(ended.arg.selectors)
    /\ Tried = SubSeq(ended.arg.selectors, 1, Len(Tried))
    /\ ~ended.threw => LastSucceeded
    /\ ended.threw <=> (Len(Tried) = Len(ended.arg.selectors) /\ ~LastSucceeded)


\* ------------------------------------------------------ ConsoleErrorHelper
\* events one scenario can receive from the page
MaxEvents == 3

\* message.toLowerCase(), a message being a sequence of words
LowerWord(word) ==
  CASE word = "Error" -> "error"
    [] word = "Warning" -> "warning"
    [] OTHER -> word

ToLowerCase(message) == [k \in DOMAIN message |-> LowerWord(message[k])]

\* BROWSER_WARNING_PATTERNS: the words of each pattern, `.*` between them
BROWSER_WARNING_PATTERNS ==
  <<<<"warning">>, <<"favicon">>, <<"chrome-extension">>, <<"performance.mark">>,
    <<"service", "worker">>, <<"ad", "blocker">>, <<"extension">>,
    <<"sectioned h1 element">>>>

\* pattern.test(message): the words of the pattern occur in the message, in
\* the pattern's order
RECURSIVE PatternTest(_, _)
PatternTest(pattern, message) ==
  IF pattern = <<>> THEN TRUE
  ELSE IF message = <<>> THEN FALSE
  ELSE IF Head(message) = Head(pattern) THEN PatternTest(Tail(pattern), Tail(message))
  ELSE PatternTest(pattern, Tail(message))

filterConsoleErrors(errs) ==
  SelectSeq(errs, LAMBDA error :
    ~\E p \in DOMAIN BROWSER_WARNING_PATTERNS :
       PatternTest(BROWSER_WARNING_PATTERNS[p], ToLowerCase(error.message)))

\* byPage.get(url) after filtered.forEach
RECURSIVE CountAt(_, _)
CountAt(filtered, url) ==
  IF filtered = <<>> THEN 0
  ELSE (IF Head(filtered).url = url THEN 1 ELSE 0) + CountAt(Tail(filtered), url)

\* faulty variant: the warnings are taken from the unfiltered list
analyzeErrors_WarningsOfAll(errs) ==
  LET filtered == filterConsoleErrors(errs)
      critical == SelectSeq(filtered, LAMBDA e :
                    e.type = "pageerror" \/ Includes(e.message, "error"))
  IN [total |-> Len(errs), filtered |-> Len(filtered), critical |-> critical,
      warnings |-> SelectSeq(errs, LAMBDA e : e \notin Range(critical)),
      byPage |-> [url \in {filtered[k].url : k \in DOMAIN filtered} |->
                    CountAt(filtered, url)]]

analyzeErrors(errs) ==
  LET filtered == filterConsoleErrors(errs)
      critical == SelectSeq(filtered, LAMBDA e :
                    e.type = "pageerror" \/ Includes(e.message, "error"))
  IN [total |-> Len(errs), filtered |-> Len(filtered), critical |-> critical,
      warnings |-> SelectSeq(filtered, LAMBDA e : e \notin Range(critical)),
      byPage |-> [url \in {filtered[k].url : k \in DOMAIN filtered} |->
                    CountAt(filtered, url)]]

\* what the page can emit: console messages of a type with a text, and
\* uncaught exceptions with a message
Messages == {<<"error">>, <<"Error">>, <<"Warning", "error">>, <<"service", "x", "worker">>}

PageEvents ==
  {[kind |-> "console", type |-> "error", text |-> text] : text \in Messages}
  \cup {[kind |-> "console", type |-> "warning", text |-> <<"error">>]}
  \cup {[kind |-> "pageerror", type |-> "pageerror", text |-> <<"Error">>]}

\* faulty variant: the console listener records every message
Recorded_AnyType(event) == TRUE

\* the two listeners: if (msg.type() === 'error') for a console message, no
\* condition for a page error
Recorded(event) == event.kind = "pageerror" \/ event.type = "error"

\* errors.push({ type, message, url: page.url(), timestamp: Date.now() })
PushedError(errs, event, url, now) ==
  Append(errs, [type |-> event.type, message |-> event.text, url |-> url, timestamp |-> now])

\* const errors = ConsoleErrorHelper.setupErrorListeners(page)
SetupErrorListeners ==
  /\ ScenarioRuns
  /\ site.listeners = {}
  /\ site' = [site EXCEPT !.listeners = {"console", "pageerror"}]
  /\ errors' = <<>>
  /\ UNCHANGED <<clock, runs, files, emitted>>
  /\ UNCHANGED <<frame, log, ended>>
  /\ UNCHANGED <<configVars, basePageVars>>

\* the page emits an event and the listeners registered for it run
Emit(event) ==
  /\ Len(emitted) < MaxEvents
  /\ emitted' = Append(emitted, [event |-> event, url |-> site.url,
                                 since |-> site.listeners # {}])
  /\ errors' = IF event.kind \in site.listeners /\ Recorded(event)
                 THEN PushedError(errors, event, site.url, clock)
               ELSE errors
  /\ UNCHANGED <<clock, runs, files>>
  /\ UNCHANGED <<site, frame, log, ended>>
  /\ UNCHANGED <<configVars, basePageVars>>

\* const analysis = ConsoleErrorHelper.analyzeErrors(errors)
AnalyzeErrors ==
  /\ site.listeners # {}
  /\ ended.fn = "none"
  /\ Stepped("analyzeErrors", errors, analyzeErrors(errors))

ConsoleUrls == {<<"index">>, <<"about">>}

InitConsole ==
  InitSite(ReadmeDoc, MissingFile, ProcEnv(Undefined, Undefined, Undefined, Undefined),
           <<>>, [visible |-> {}, text |-> JsNull, url |-> <<"index">>, listeners |-> {}])

ConsoleNext ==
  \/ ImportModule
  \/ SetupErrorListeners
  \/ \E event \in PageEvents : Emit(event)
  \/ \E url \in ConsoleUrls : UrlChange(url)
  \/ AnalyzeErrors

SpecConsole == InitConsole /\ [][ConsoleNext]_vars

\* the sum of the counts byPage holds
RECURSIVE SumOver(_, _)
SumOver(f, keys) ==
  IF keys = {} THEN 0
  ELSE LET k == CHOOSE x \in keys : TRUE IN f[k] + SumOver(f, keys \ {k})

\* C29: analyzeErrors(errors) reports total = the length of the input,
\* filtered = the number of entries matching no browser-warning pattern,
\* critical and warnings disjoint and together exactly the filtered entries
\* (critical.length + warnings.length = filtered <= total), and byPage counts
\* that sum to filtered
C29_AnalysisCounts ==
  Ended_Is("analyzeErrors") =>
    LET analysis == ended.value
        kept == {k \in DOMAIN ended.arg :
                   ~\E p \in DOMAIN BROWSER_WARNING_PATTERNS :
                      PatternTest(BROWSER_WARNING_PATTERNS[p],
                                  ToLowerCase(ended.arg[k].message))}
    IN /\ analysis.total = Len(ended.arg)
       /\ analysis.filtered = Cardinality(kept)
       /\ Range(analysis.critical) \cap Range(analysis.warnings) = {}
       /\ Range(analysis.critical) \cup Range(analysis.warnings)
            = {ended.arg[k] : k \in kept}
       /\ Len(analysis.critical) + Len(analysis.warnings) = analysis.filtered
       /\ analysis.filtered <= analysis.total
       /\ SumOver(analysis.byPage, DOMAIN analysis.byPage) = analysis.filtered

\* an analysis of a list that holds a filtered entry, a critical one and a
\* warning
C29_Witness ==
  /\ Ended_Is("analyzeErrors")
  /\ ended.value.filtered < ended.value.total
  /\ Len(ended.value.critical) > 0
  /\ Len(ended.value.warnings) > 0

\* the entries the listeners owe: one for each event emitted since the call
\* that is a console message of type 'error' or a page error, in the order of
\* emission
RECURSIVE Owed(_)
Owed(events) ==
  IF events = <<>> THEN <<>>
  ELSE LET e == events[Len(events)]
           before == Owed(SubSeq(events, 1, Len(events) - 1))
       IN IF e.since /\ (e.event.kind = "pageerror"
                         \/ (e.event.kind = "console" /\ e.event.type = "error"))
            THEN Append(before, [type |-> e.event.type, message |-> e.event.text,
                                 url |-> e.url])
          ELSE before

\* C30: the list setupErrorListeners returned holds, in emission order,
\* exactly one entry for every console message of type 'error' and every page
\* error emitted since the call, none for a console message of another type,
\* and entries are only ever appended to it: none is removed or moved
C30_ListenersRecordInOrder ==
  /\ [](site.listeners # {} =>
          [k \in DOMAIN errors |->
             [type |-> errors[k].type, message |-> errors[k].message,
              url |-> errors[k].url]] = Owed(emitted))
  /\ [][Len(errors') >= Len(errors) /\ SubSeq(errors', 1, Len(errors)) = errors]_vars

\* a console error, a console warning and a page error were emitted after
\* the call, and the list holds two entries
C30_Witness ==
  /\ site.listeners # {}
  /\ Len(errors) = 2
  /\ errors[1].type # errors[2].type
  /\ \E k \in DOMAIN emitted : emitted[k].since /\ emitted[k].event.type = "warning"

====
